---- MODULE Spec2Model ----
(***************************************************************************)
(* Route planning core of the EcoRoute planner.                            *)
(*                                                                         *)
(* Two route services are modelled: the one the application runs          *)
(* (src/app.py, class RouteService) and the library one                   *)
(* (src/api/route_service.py, class RouteService), together with the      *)
(* calculators of src/calculators.                                         *)
(*                                                                         *)
(* Fixed-point units (Python floats are replaced by scaled integers):      *)
(*   metres, seconds               provider values, as in the source       *)
(*   km2   = 1/100 km              round(distance_km, 2)                   *)
(*   min1  = 1/10 minute           round(duration_min, 1)                  *)
(*   paise = 1/100 INR             round(cost, 2)                          *)
(*   grams = 1/1000 kg             round(co2, 3)                           *)
(*   score1 = 1/10 point           round(eco_score, 1)                     *)
(***************************************************************************)
EXTENDS Integers, Sequences, FiniteSets, TLC

VARIABLES
    google_client,   \* app.py RouteService.google_client: TRUE iff a client is set
    pc,              \* position of the request in progress
    req,             \* the request in progress (operation and arguments)
    providerCalls,   \* directions queries issued for the request in progress
    directions,      \* what the directions query of the request returned, None before
    result,          \* value handed back to the caller (a route, None or a raise)
    previous         \* the call completed before this one: [req, result], or NoReq

vars == <<google_client, pc, req, providerCalls, directions, result, previous>>

\* ------------------------------------------------------------------------
\* Values
\* ------------------------------------------------------------------------

None == [kind |-> "None"]

Raised(e) == [kind |-> "raised", error |-> e]

NoReq == [op |-> "none"]

\* A Python list and a Python str, where the field may also hold None.
List(items) == [kind |-> "list", items |-> items]

Str(val) == [kind |-> "str", val |-> val]

\* round(): Python rounds halves to the even neighbour.
RoundDiv(n, d) ==
    LET q == n \div d
        r == n % d
    IN  IF 2 * r > d \/ (2 * r = d /\ q % 2 = 1) THEN q + 1 ELSE q

\* round(a * b / c) without leaving 32-bit integers.
RoundMulDiv(a, b, c) ==
    LET whole == (a \div c) * b
        part  == (a % c) * b
    IN  whole + RoundDiv(part, c)

Min(a, b) == IF a <= b THEN a ELSE b

Max(a, b) == IF a >= b THEN a ELSE b

\* ------------------------------------------------------------------------
\* Coordinates: (lat, lng) in 1/10000 degree.
\* ------------------------------------------------------------------------

MapCenter == <<129716, 775946>>

MapCenterOffset == <<130216, 776446>>

Airport == <<131986, 777066>>

SouthPole82 == <<-820000, -1800000>>

NorthPole82 == <<820000, 0>>

Coords == {MapCenter, MapCenterOffset, Airport, SouthPole82, NorthPole82}

DomainError == 0 - 1

\* The Haversine expression of _create_basic_route evaluated in IEEE doubles
\* on Coords, in metres.  Between the antipodal pair the term `a` evaluates
\* to 1.0000000000000002, so sqrt(1-a) raises ValueError (math domain error).
HaversineMetres ==
    [p \in Coords \X Coords |->
        LET s == p[1]
            e == p[2]
            pair(x, y) == {s, e} = {x, y}
        IN  IF s = e THEN 0
            ELSE IF pair(MapCenter, MapCenterOffset) THEN 7763
            ELSE IF pair(MapCenter, Airport) THEN 28005
            ELSE IF pair(MapCenterOffset, Airport) THEN 20795
            ELSE IF pair(MapCenter, SouthPole82) THEN 11626707
            ELSE IF pair(MapCenterOffset, SouthPole82) THEN 11631450
            ELSE IF pair(Airport, SouthPole82) THEN 11649993
            ELSE IF pair(MapCenter, NorthPole82) THEN 8388380
            ELSE IF pair(MapCenterOffset, NorthPole82) THEN 8383637
            ELSE IF pair(Airport, NorthPole82) THEN 8365094
            ELSE DomainError]

\* ------------------------------------------------------------------------
\* src/app.py: configuration tables
\* ------------------------------------------------------------------------

\* TransportMode.get_all() of app.py.
AppModes == {"car", "metro", "bus", "walking", "bicycle"}

\* Mode strings a caller may pass: the five above, the two names only the
\* calculators' enumeration knows, and one name no table knows.
RequestModes == AppModes \cup {"bike", "walk", "scooter"}

\* RoutePriority.get_all() of app.py.
AppPriorities == {"eco_friendly", "fastest", "cheapest", "balanced"}

\* Settings.TRANSPORT_MODES of app.py; cost_per_km in 1/10 INR, co2_per_km
\* in g.
AppTransportModes ==
    [m \in AppModes |->
        CASE m = "car"     -> [name |-> "Car", speed_kmh |-> 40, cost_per_km |-> 80, co2_per_km |-> 192]
          [] m = "metro"   -> [name |-> "Metro", speed_kmh |-> 35, cost_per_km |-> 20, co2_per_km |-> 35]
          [] m = "bus"     -> [name |-> "Bus", speed_kmh |-> 20, cost_per_km |-> 15, co2_per_km |-> 89]
          [] m = "walking" -> [name |-> "Walking", speed_kmh |-> 5, cost_per_km |-> 0, co2_per_km |-> 0]
          [] m = "bicycle" -> [name |-> "Bicycle", speed_kmh |-> 15, cost_per_km |-> 0, co2_per_km |-> 0]]

\* Settings.TRANSPORT_MODES.get(mode, Settings.TRANSPORT_MODES['car'])
AppModeConfig(mode) ==
    IF mode \in DOMAIN AppTransportModes
    THEN AppTransportModes[mode]
    ELSE AppTransportModes["car"]

\* self.mode_mapping.get(mode, "driving")
AppGoogleMode(mode) ==
    CASE mode = "car" -> "driving"
      [] mode \in {"metro", "bus"} -> "transit"
      [] mode = "walking" -> "walking"
      [] mode = "bicycle" -> "bicycling"
      [] OTHER -> "driving"

\* base_scores.get(mode, default), in points.
AppBaseScore(mode, default) ==
    CASE mode = "walking" -> 95
      [] mode = "bicycle" -> 90
      [] mode = "metro" -> 85
      [] mode = "bus" -> 75
      [] mode = "car" -> 40
      [] OTHER -> default

EstimatedNotice == "Using estimated route (Google Maps API not available)"

\* ------------------------------------------------------------------------
\* src/app.py: RouteService._create_basic_route
\* ------------------------------------------------------------------------

AppHaversine(start_coords, end_coords) == HaversineMetres[<<start_coords, end_coords>>]

App_create_basic_route(start_coords, end_coords, mode) ==
    LET distance_m  == AppHaversine(start_coords, end_coords)
        mode_config == AppModeConfig(mode)
        speed5      == 5 * mode_config.speed_kmh
    IN  IF distance_m = DomainError
        THEN Raised("ValueError")
        ELSE [kind |-> "route",
              mode |-> mode,
              start_location |-> start_coords,
              end_location |-> end_coords,
              total_distance_km |-> RoundDiv(distance_m, 10),
              total_duration_min |-> RoundMulDiv(distance_m, 3, speed5),
              cost_inr |-> RoundMulDiv(distance_m, mode_config.cost_per_km, 100),
              co2_emissions_kg |-> RoundMulDiv(distance_m, mode_config.co2_per_km, 1000),
              eco_score |-> 10 * AppBaseScore(mode, 50),
              polyline |-> None,
              decoded_path |-> <<start_coords, end_coords>>,
              steps |-> << [step |-> 1,
                            distance_m |-> distance_m,
                            duration_s |-> RoundMulDiv(distance_m, 18, speed5),
                            mode |-> mode] >>,
              transit_segments |-> None,
              warnings |-> List(<<EstimatedNotice>>),
              is_realistic |-> FALSE,
              mode_config |-> mode_config]

\* ------------------------------------------------------------------------
\* The directions provider (external): what one directions query can answer
\* ------------------------------------------------------------------------

\* polyline.decode of the geometry codec on the encoded strings the provider
\* sends here; "garbage" makes the codec raise.
PolylineDecode(encoded) ==
    CASE encoded = "enc_center_offset" -> [ok |-> TRUE, path |-> <<MapCenter, MapCenterOffset>>]
      [] encoded = "enc_center_airport" -> [ok |-> TRUE, path |-> <<MapCenter, MapCenterOffset, Airport>>]
      [] OTHER -> [ok |-> FALSE, path |-> <<>>]

ProviderStep(travel_mode, metres, seconds, vehicle, points) ==
    [travel_mode |-> travel_mode,
     distance |-> metres,
     duration |-> seconds,
     transit_details |-> IF vehicle = "" THEN None ELSE [kind |-> "transit", vehicle_type |-> vehicle],
     polyline |-> points]

\* A driving route of two steps; the leg totals are the provider's own.
DrivingResponse ==
    [legs |-> << [steps |-> << ProviderStep("DRIVING", 5200, 600, "", "enc_center_offset"),
                               ProviderStep("DRIVING", 3100, 420, "", "garbage") >>,
                  distance |-> 8300,
                  duration |-> 1080,
                  start_location |-> MapCenter,
                  end_location |-> MapCenterOffset] >>,
     overview_polyline |-> "enc_center_offset",
     warnings |-> None]

\* A transit route: walk, metro, walk, bus; the provider attaches a warning.
TransitResponse ==
    [legs |-> << [steps |-> << ProviderStep("WALKING", 400, 300, "", "enc_center_offset"),
                               ProviderStep("TRANSIT", 15000, 1500, "SUBWAY", "enc_center_airport"),
                               ProviderStep("WALKING", 300, 240, "", ""),
                               ProviderStep("TRANSIT", 12500, 2100, "BUS", "enc_center_airport") >>,
                  distance |-> 28300,
                  duration |-> 4500,
                  start_location |-> MapCenter,
                  end_location |-> Airport] >>,
     overview_polyline |-> "garbage",
     warnings |-> List(<<"Walking directions are in beta">>)]

\* A short walk whose overview polyline is missing.
WalkingResponse ==
    [legs |-> << [steps |-> << ProviderStep("WALKING", 1500, 1100, "", "enc_center_offset") >>,
                  distance |-> 1500,
                  duration |-> 1100,
                  start_location |-> MapCenter,
                  end_location |-> MapCenterOffset] >>,
     overview_polyline |-> "",
     warnings |-> List(<<>>)]

\* A response without legs: route_data['legs'][0] fails.
MalformedResponse ==
    [legs |-> <<>>, overview_polyline |-> "", warnings |-> None]

\* A rail route: a train, a walk, a tram, and a transit step that names no
\* vehicle.
RailResponse ==
    [legs |-> << [steps |-> << ProviderStep("TRANSIT", 9000, 900, "RAIL", "enc_center_offset"),
                               ProviderStep("WALKING", 200, 180, "", "enc_center_offset"),
                               ProviderStep("TRANSIT", 2500, 600, "TRAM", "enc_center_airport"),
                               ProviderStep("TRANSIT", 1300, 300, "", "enc_center_airport") >>,
                  distance |-> 13000,
                  duration |-> 1980,
                  start_location |-> MapCenter,
                  end_location |-> Airport] >>,
     overview_polyline |-> "enc_center_airport",
     warnings |-> None]

Responses == {DrivingResponse, TransitResponse, WalkingResponse, RailResponse, MalformedResponse}

\* What gmaps.directions does when queried: it raises, or returns a list of
\* routes (possibly empty).
ProviderOutcomes ==
    {[kind |-> "raises"], [kind |-> "ok", routes |-> <<>>]}
    \cup {[kind |-> "ok", routes |-> <<r>>] : r \in Responses}

\* ------------------------------------------------------------------------
\* src/app.py: GoogleMapsClient
\* ------------------------------------------------------------------------

\* GoogleMapsClient.get_directions: the query's result, [] when it raises.
AppGetDirections(outcome) ==
    IF outcome.kind = "raises" THEN <<>> ELSE outcome.routes

\* GoogleMapsClient.decode_polyline: [] for an empty string and when the
\* codec raises.
AppDecodePolyline(encoded_polyline) ==
    IF encoded_polyline = "" THEN <<>>
    ELSE IF PolylineDecode(encoded_polyline).ok
         THEN PolylineDecode(encoded_polyline).path
         ELSE <<>>

\* str.lower() on the provider's travel modes and vehicle types.
Lower(s) ==
    CASE s = "DRIVING" -> "driving"
      [] s = "WALKING" -> "walking"
      [] s = "BICYCLING" -> "bicycling"
      [] s = "TRANSIT" -> "transit"
      [] s = "SUBWAY" -> "subway"
      [] s = "BUS" -> "bus"
      [] s = "RAIL" -> "rail"
      [] s = "TRAM" -> "tram"
      [] OTHER -> s

\* ------------------------------------------------------------------------
\* src/app.py: RouteService._process_google_route
\* ------------------------------------------------------------------------

\* Variant: trains are shown as plain transit (compare AppDisplayMode).
DisplayModeWithoutTrain(vehicle_type) ==
    CASE vehicle_type = "subway" -> "metro"
      [] vehicle_type = "bus" -> "bus"
      [] OTHER -> "transit"

AppDisplayMode(vehicle_type) ==
    CASE vehicle_type = "subway" -> "metro"
      [] vehicle_type = "bus" -> "bus"
      [] vehicle_type \in {"train", "rail"} -> "train"
      [] OTHER -> "transit"

AppHasTransit(step) ==
    step.travel_mode = "TRANSIT" /\ step.transit_details # None

AppTransitInfo(step) ==
    LET vehicle_type == Lower(step.transit_details.vehicle_type)
    IN  [vehicle_type |-> vehicle_type, display_mode |-> AppDisplayMode(vehicle_type)]

AppStepInfo(step, i) ==
    [step |-> i,
     distance_m |-> step.distance,
     duration_s |-> step.duration,
     mode |-> IF AppHasTransit(step)
              THEN AppTransitInfo(step).display_mode
              ELSE Lower(step.travel_mode),
     polyline |-> step.polyline,
     decoded_path |-> AppDecodePolyline(step.polyline),
     transit |-> IF AppHasTransit(step) THEN AppTransitInfo(step) ELSE None]

RECURSIVE SumOver(_, _)
SumOver(seq, field) ==
    IF seq = <<>> THEN 0 ELSE seq[1][field] + SumOver(Tail(seq), field)

RECURSIVE SelectTransit(_)
SelectTransit(steps) ==
    IF steps = <<>> THEN <<>>
    ELSE IF steps[1].transit # None
         THEN <<steps[1].transit>> \o SelectTransit(Tail(steps))
         ELSE SelectTransit(Tail(steps))

\* Variant: the provider's 'warnings' passed on as found, without the default.
WarningsWithoutDefault(route_data) == route_data.warnings

\* 'warnings': route_data.get('warnings', [])
AppWarnings(route_data) ==
    IF route_data.warnings = None THEN List(<<>>) ELSE route_data.warnings

App_process_google_route(route_data, mode) ==
    IF route_data.legs = <<>>
    THEN Raised("IndexError")
    ELSE LET leg   == route_data.legs[1]
             steps == [i \in 1..Len(leg.steps) |-> AppStepInfo(leg.steps[i], i)]
             transit_segments == SelectTransit(steps)
         IN  [kind |-> "route",
              mode |-> mode,
              start_location |-> leg.start_location,
              end_location |-> leg.end_location,
              total_distance_m |-> SumOver(leg.steps, "distance"),
              total_duration_s |-> SumOver(leg.steps, "duration"),
              polyline |-> Str(route_data.overview_polyline),
              decoded_path |-> AppDecodePolyline(route_data.overview_polyline),
              steps |-> steps,
              transit_segments |-> IF transit_segments # <<>> THEN List(transit_segments) ELSE None,
              warnings |-> AppWarnings(route_data),
              is_realistic |-> TRUE]

\* ------------------------------------------------------------------------
\* src/app.py: RouteService._calculate_metrics and _calculate_eco_score
\* ------------------------------------------------------------------------

AppPriorityFactor(priority) ==
    CASE priority = "eco_friendly" -> 13
      [] priority = "fastest" -> 9
      [] priority = "cheapest" -> 11
      [] OTHER -> 10

\* min(100, base * distance_factor * co2_factor * priority_factor), rounded
\* to one decimal; the factors are in tenths, co2_factor in 1/10000.
App_calculate_eco_score(mode, distance_m, co2_g, priority) ==
    LET base_score      == AppBaseScore(mode, 50)
        distance_factor == IF distance_m < 2000 THEN 12
                           ELSE IF distance_m > 20000 THEN 8 ELSE 10
        co2_factor      == Max(5000, 10000 - co2_g)
        final_score     == RoundDiv(base_score * distance_factor * AppPriorityFactor(priority) * co2_factor,
                                    100000)
    IN  Min(1000, final_score)

App_calculate_metrics(route, mode, priority) ==
    LET distance_m  == route.total_distance_m
        duration_s  == route.total_duration_s
        mode_config == AppModeConfig(mode)
        co2_g       == RoundMulDiv(distance_m, mode_config.co2_per_km, 1000)
        \* distance_km * cost_per_km, plus 50 INR per hour for the car, in paise
        base_cost   == IF mode = "car"
                       THEN RoundDiv(distance_m * mode_config.cost_per_km * 9 + duration_s * 1250, 900)
                       ELSE RoundMulDiv(distance_m, mode_config.cost_per_km, 100)
    IN  [f \in DOMAIN route \cup {"total_distance_km", "total_duration_min", "cost_inr",
                                  "co2_emissions_kg", "eco_score", "mode_config", "priority"} |->
            CASE f = "total_distance_km" -> RoundDiv(distance_m, 10)
              [] f = "total_duration_min" -> RoundDiv(duration_s, 6)
              [] f = "cost_inr" -> base_cost
              [] f = "co2_emissions_kg" -> co2_g
              [] f = "eco_score" -> App_calculate_eco_score(mode, distance_m, co2_g, priority)
              [] f = "mode_config" -> mode_config
              [] f = "priority" -> priority
              [] OTHER -> route[f]]

\* ------------------------------------------------------------------------
\* src/utils/constants.py and src/config/settings.py
\* ------------------------------------------------------------------------

\* class TransportMode(str, Enum): member name -> value.
TransportMode ==
    [n \in {"CAR", "METRO", "BUS", "BIKE", "WALK"} |->
        CASE n = "CAR" -> "car"
          [] n = "METRO" -> "metro"
          [] n = "BUS" -> "bus"
          [] n = "BIKE" -> "bike"
          [] n = "WALK" -> "walk"]

\* The values TransportMode(value) accepts.
TransportModeValues == {TransportMode[n] : n \in DOMAIN TransportMode}

\* Settings.TRANSPORT_MODES[mode].eco_weight, in percent.
EcoWeight(mode) ==
    CASE mode = "car" -> 30
      [] mode = "metro" -> 90
      [] mode = "bus" -> 70
      [] mode = "bike" -> 100
      [] mode = "walk" -> 100

\* Settings.ECO_SCORE_WEIGHTS, in percent.
ECO_SCORE_WEIGHTS ==
    [co2_emissions |-> 40, cost_efficiency |-> 25,
     time_efficiency |-> 20, mode_sustainability |-> 15]

\* ECO_SCORE_THRESHOLDS, in points.
ECO_SCORE_THRESHOLDS ==
    [Excellent |-> 80, Good |-> 60, Moderate |-> 40, Poor |-> 20, VeryPoor |-> 0]

ECO_SCORE_COLORS ==
    [Excellent |-> "#2E7D32", Good |-> "#43A047", Moderate |-> "#FB8C00",
     Poor |-> "#E53935", VeryPoor |-> "#B71C1C"]

\* ------------------------------------------------------------------------
\* src/calculators/cost_calculator.py
\*
\* The calculators take distance in hectometres (0.1 km) and duration in
\* whole minutes.  Costs are in 1/300 INR, which makes every fare of the
\* source an integer; INR(x) is x rupees in that unit.
\* ------------------------------------------------------------------------

INR(x) == 300 * x

\* math.ceil(duration_min / 60)
CeilHours(duration_min) == (duration_min + 59) \div 60

\* Variant: parking charged by the started hour, without the first-hour minimum.
ParkingWithoutMinimum(duration_min, time_of_day) ==
    INR(CeilHours(duration_min) * (IF time_of_day \in {"peak", "None"} THEN 30 ELSE 20))

_estimate_parking_cost(duration_min, time_of_day) ==
    LET rate_per_hour  == IF time_of_day \in {"peak", "None"} THEN 30 ELSE 20
        duration_hours == Max(1, CeilHours(duration_min))
    IN  INR(duration_hours * rate_per_hour)

\* Variant: the toll charged on the wrong side of the threshold.
TollBelowThreshold(distance_hm) ==
    IF distance_hm < 200 THEN INR(50) ELSE 0

_estimate_toll_charges(distance_hm) ==
    IF distance_hm > 200 THEN INR(50) ELSE 0

\* total_cost / distance_km if distance_km > 0 else 0, per km, rounded down.
CostPerKm(total_cost, distance_hm) ==
    IF distance_hm > 0 THEN (total_cost * 10) \div distance_hm ELSE 0

_calculate_car_cost(distance_hm, duration_min, time_of_day) ==
    LET fuel_cost         == distance_hm * 200   \* (km / 15) * 100 INR
        maintenance_cost  == distance_hm * 90    \* 3.0 INR per km
        parking_cost      == _estimate_parking_cost(duration_min, time_of_day)
        toll_cost         == _estimate_toll_charges(distance_hm)
        depreciation_cost == distance_hm * 60    \* 2.0 INR per km
        total_cost        == fuel_cost + maintenance_cost + parking_cost + toll_cost + depreciation_cost
    IN  [total_cost |-> total_cost,
         fuel_cost |-> fuel_cost,
         maintenance_cost |-> maintenance_cost,
         parking_cost |-> parking_cost,
         toll_cost |-> toll_cost,
         depreciation_cost |-> depreciation_cost,
         cost_per_km |-> CostPerKm(total_cost, distance_hm),
         method |-> "detailed_car"]

\* Variant: the metro fare without its maximum.
MetroFareUncapped(distance_hm) ==
    [total_cost |-> INR(10) + distance_hm * 75,
     base_fare |-> INR(10),
     distance_fare |-> distance_hm * 75,
     cost_per_km |-> CostPerKm(INR(10) + distance_hm * 75, distance_hm),
     method |-> "metro_fare"]

_calculate_metro_cost(distance_hm) ==
    LET base_fare     == INR(10)              \* Settings.METRO_BASE_FARE
        distance_fare == distance_hm * 75     \* Settings.METRO_PER_KM_FARE = 2.5 INR per km
        max_fare      == INR(60)
        fare          == Min(base_fare + distance_fare, max_fare)
    IN  [total_cost |-> fare,
         base_fare |-> base_fare,
         distance_fare |-> distance_fare,
         cost_per_km |-> CostPerKm(fare, distance_hm),
         method |-> "metro_fare"]

\* Variant: the bus bands with their upper bounds excluded.
BusFareExclusiveBounds(distance_hm) ==
    LET fare == IF distance_hm < 20 THEN 5
                ELSE IF distance_hm < 40 THEN 10
                ELSE IF distance_hm < 60 THEN 15
                ELSE IF distance_hm < 100 THEN 25
                ELSE IF distance_hm < 150 THEN 30
                ELSE 35
    IN  [total_cost |-> INR(fare + 10),
         base_fare |-> INR(fare),
         ac_surcharge |-> INR(10),
         cost_per_km |-> CostPerKm(INR(fare + 10), distance_hm),
         method |-> "bus_fare"]

_calculate_bus_cost(distance_hm) ==
    LET fare == IF distance_hm <= 20 THEN 5
                ELSE IF distance_hm <= 40 THEN 10
                ELSE IF distance_hm <= 60 THEN 15
                ELSE IF distance_hm <= 100 THEN 25
                ELSE IF distance_hm <= 150 THEN 30
                ELSE 35
        ac_surcharge == 10
        total_fare   == INR(fare + ac_surcharge)
    IN  [total_cost |-> total_fare,
         base_fare |-> INR(fare),
         ac_surcharge |-> INR(ac_surcharge),
         cost_per_km |-> CostPerKm(total_fare, distance_hm),
         method |-> "bus_fare"]

_calculate_bike_cost(distance_hm, duration_min) ==
    LET maintenance_cost == distance_hm * 15     \* 0.5 INR per km
        rental_cost      == INR(duration_min)    \* 1.0 INR per minute
        total_cost       == Min(maintenance_cost, rental_cost)
    IN  [total_cost |-> total_cost,
         maintenance_cost |-> maintenance_cost,
         rental_cost |-> rental_cost,
         cost_per_km |-> CostPerKm(total_cost, distance_hm),
         method |-> IF rental_cost < maintenance_cost THEN "bike_rental" ELSE "bike_personal"]

_calculate_walk_cost(distance_hm) ==
    LET shoe_cost == distance_hm * 3             \* 0.1 INR per km
    IN  [total_cost |-> shoe_cost,
         shoe_wear_cost |-> shoe_cost,
         cost_per_km |-> 30,                     \* shoe_wear_per_km, whatever the distance
         method |-> "walking"]

calculate_cost(mode, distance_hm, duration_min, time_of_day) ==
    CASE mode = TransportMode["CAR"] -> _calculate_car_cost(distance_hm, duration_min, time_of_day)
      [] mode = TransportMode["METRO"] -> _calculate_metro_cost(distance_hm)
      [] mode = TransportMode["BUS"] -> _calculate_bus_cost(distance_hm)
      [] mode = TransportMode["BIKE"] -> _calculate_bike_cost(distance_hm, duration_min)
      [] mode = TransportMode["WALK"] -> _calculate_walk_cost(distance_hm)

\* ------------------------------------------------------------------------
\* src/calculators/emission_calculator.py; emissions in milligrams.
\* ------------------------------------------------------------------------

\* distance_km / fuel_efficiency * co2_per_liter with co2_per_liter in g.
FuelEmissions(distance_hm, fuel_efficiency, co2_g_per_liter) ==
    RoundDiv(distance_hm * co2_g_per_liter * 100, fuel_efficiency)

_calculate_car_emissions(distance_hm, vehicle_type) ==
    CASE vehicle_type = "diesel" ->
            [co2_kg |-> FuelEmissions(distance_hm, 18, 2680), method |-> "diesel"]
      [] vehicle_type = "cng" ->
            [co2_kg |-> FuelEmissions(distance_hm, 20, 2750), method |-> "cng"]
      [] vehicle_type = "electric" ->
            \* distance_km * 0.15 kWh * 0.82 kg
            [co2_kg |-> distance_hm * 12300, method |-> "electric"]
      [] vehicle_type = "hybrid" ->
            [co2_kg |-> FuelEmissions(distance_hm, 22, 1550), method |-> "hybrid"]
      [] OTHER ->
            [co2_kg |-> FuelEmissions(distance_hm, 15, 2310),
             method |-> IF vehicle_type = "None" THEN "petrol" ELSE vehicle_type]

_calculate_metro_emissions(distance_hm) ==
    \* distance_km * 0.15 kWh per passenger-km * 0.82 kg per kWh
    [co2_kg |-> distance_hm * 12300, method |-> "electric_metro"]

_calculate_bus_emissions(distance_hm) ==
    \* distance_km * (1 / (4 km per liter * 40 passengers)) * 2.68 kg
    [co2_kg |-> FuelEmissions(distance_hm, 4 * 40, 2680), method |-> "diesel_bus"]

_calculate_bike_emissions(distance_hm) ==
    \* distance_km * 35 calories * 0.001 kg per calorie
    [co2_kg |-> distance_hm * 3500, method |-> "human_power"]

_calculate_walk_emissions(distance_hm) ==
    \* distance_km * 70 calories * 0.001 kg per calorie
    [co2_kg |-> distance_hm * 7000, method |-> "human_power"]

calculate_co2_emissions(mode, distance_hm, vehicle_type) ==
    CASE mode = TransportMode["CAR"] -> _calculate_car_emissions(distance_hm, vehicle_type)
      [] mode = TransportMode["METRO"] -> _calculate_metro_emissions(distance_hm)
      [] mode = TransportMode["BUS"] -> _calculate_bus_emissions(distance_hm)
      [] mode = TransportMode["BIKE"] -> _calculate_bike_emissions(distance_hm)
      [] mode = TransportMode["WALK"] -> _calculate_walk_emissions(distance_hm)

\* calculate_health_benefits: calories and the health score in tenths.
calculate_health_benefits(mode, distance_hm) ==
    CASE mode = TransportMode["BIKE"] ->
            [calories_burned |-> RoundDiv(distance_hm * 35, 10), health_score |-> distance_hm * 10,
             cardiovascular_benefit |-> "High", air_pollution_exposure |-> "Low"]
      [] mode = TransportMode["WALK"] ->
            [calories_burned |-> distance_hm * 7, health_score |-> distance_hm * 15,
             cardiovascular_benefit |-> "High", air_pollution_exposure |-> "Low"]
      [] OTHER ->
            [calories_burned |-> 0, health_score |-> 0,
             cardiovascular_benefit |-> "Low", air_pollution_exposure |-> "High"]

\* ------------------------------------------------------------------------
\* src/calculators/eco_scorer.py; component scores and the score are in
\* 1/1000 point, Points(x) is x points in that unit.
\* ------------------------------------------------------------------------

Points(x) == 1000 * x

\* co2_per_km = co2_kg / distance_km if distance_km > 0 else 0, compared with
\* the bands in g per km (co2 in mg, distance in hm).
_calculate_co2_score(co2_mg, distance_hm) ==
    LET within(g_per_km) == IF distance_hm > 0
                            THEN co2_mg <= g_per_km * 100 * distance_hm
                            ELSE TRUE
    IN  IF within(20) THEN Points(100)
        ELSE IF within(50) THEN Points(90)
        ELSE IF within(80) THEN Points(75)
        ELSE IF within(120) THEN Points(50)
        ELSE IF within(150) THEN Points(25)
        ELSE Points(10)

\* cost_per_km = cost_inr / distance_km if distance_km > 0 else 0
_calculate_cost_score(cost, distance_hm) ==
    LET within(inr_per_km) == IF distance_hm > 0
                              THEN cost * 10 <= INR(inr_per_km) * distance_hm
                              ELSE TRUE
    IN  IF within(1) THEN Points(100)
        ELSE IF within(3) THEN Points(85)
        ELSE IF within(5) THEN Points(70)
        ELSE IF within(10) THEN Points(50)
        ELSE IF within(15) THEN Points(30)
        ELSE Points(15)

\* speed_kmh = distance_km / (duration_min / 60) if duration_min > 0 else 0;
\* speed_kmh * duration_min = 6 * distance_hm.
_calculate_time_score(duration_min, distance_hm) ==
    LET atLeast(kmh)   == duration_min > 0 /\ 6 * distance_hm >= kmh * duration_min
        atMost(kmh)    == duration_min > 0 => 6 * distance_hm <= kmh * duration_min
    IN  IF atLeast(15) /\ atMost(25) THEN Points(80)
        ELSE IF ~atMost(25) /\ atMost(40) THEN Points(60)
        ELSE IF ~atMost(40) THEN Points(40)
        ELSE IF atLeast(5) /\ ~atLeast(15) THEN Points(70)
        ELSE Points(90)

\* Variant: a mode score that remembers the call kept before it and gives a
\* mode scored then ten points less.
ModeScoreWornByUse(mode) ==
    IF previous.op = "calculate_eco_score" /\ previous.req.mode = mode
    THEN Points(EcoWeight(mode)) - Points(10)
    ELSE Points(EcoWeight(mode))

\* mode_config.eco_weight * 100
_calculate_mode_score(mode) == Points(EcoWeight(mode))

_calculate_health_score(mode, distance_hm) ==
    CASE mode = TransportMode["WALK"] -> Min(Points(100), distance_hm * 2000)
      [] mode = TransportMode["BIKE"] -> Min(Points(100), distance_hm * 1500)
      [] mode = TransportMode["METRO"] ->
            \* walking_distance = min(2, distance_km * 0.2), in metres
            Min(Points(50), Min(2000, distance_hm * 20) * 20)
      [] mode = TransportMode["BUS"] ->
            \* walking_distance = min(1, distance_km * 0.1), in metres
            Min(Points(30), Min(1000, distance_hm * 10) * 20)
      [] OTHER -> 0

_calculate_congestion_score(mode, duration_min) ==
    CASE mode = TransportMode["CAR"] -> Min(Points(100), duration_min * 500)
      [] mode = TransportMode["BUS"] -> Min(Points(50), duration_min * 200)
      [] mode = TransportMode["METRO"] -> 0
      [] OTHER -> 0 - Points(20)

\* Variant: a score on a threshold falls into the category below (compare
\* _get_eco_score_category).
CategoryAboveThreshold(score) ==
    IF score > Points(ECO_SCORE_THRESHOLDS.Excellent) THEN "Excellent"
    ELSE IF score > Points(ECO_SCORE_THRESHOLDS.Good) THEN "Good"
    ELSE IF score > Points(ECO_SCORE_THRESHOLDS.Moderate) THEN "Moderate"
    ELSE IF score > Points(ECO_SCORE_THRESHOLDS.Poor) THEN "Poor"
    ELSE "VeryPoor"

_get_eco_score_category(score) ==
    IF score >= Points(ECO_SCORE_THRESHOLDS.Excellent) THEN "Excellent"
    ELSE IF score >= Points(ECO_SCORE_THRESHOLDS.Good) THEN "Good"
    ELSE IF score >= Points(ECO_SCORE_THRESHOLDS.Moderate) THEN "Moderate"
    ELSE IF score >= Points(ECO_SCORE_THRESHOLDS.Poor) THEN "Poor"
    ELSE "VeryPoor"

\* Variant: the weighted sum handed out as it is.
UnclampedScore(weighted_score) == weighted_score

\* max(0, min(100, weighted_score))
ClampScore(weighted_score) == Max(0, Min(Points(100), weighted_score))

\* Variant: the health bonus is added for every mode (compare
\* calculate_eco_score).
HealthBonusForEveryMode(mode, distance_hm, duration_min) ==
    LET co2_data   == calculate_co2_emissions(mode, distance_hm, "None")
        cost_data  == calculate_cost(mode, distance_hm, duration_min, "None")
        co2_score  == _calculate_co2_score(co2_data.co2_kg, distance_hm)
        cost_score == _calculate_cost_score(cost_data.total_cost, distance_hm)
        time_score == _calculate_time_score(duration_min, distance_hm)
        mode_score == _calculate_mode_score(mode)
        health_score     == _calculate_health_score(mode, distance_hm)
        congestion_score == _calculate_congestion_score(mode, duration_min)
        weights    == ECO_SCORE_WEIGHTS
        weighted   == (co2_score * weights.co2_emissions
                       + cost_score * weights.cost_efficiency
                       + time_score * weights.time_efficiency
                       + mode_score * weights.mode_sustainability) \div 100
        weighted_score == weighted + health_score \div 10 - congestion_score \div 20
        final_score    == ClampScore(weighted_score)
        category       == _get_eco_score_category(final_score)
    IN  [score |-> final_score,
         category |-> category,
         color |-> ECO_SCORE_COLORS[category],
         components |-> [co2_score |-> co2_score, cost_score |-> cost_score,
                         time_score |-> time_score, mode_score |-> mode_score,
                         health_score |-> health_score,
                         congestion_score |-> congestion_score],
         co2_kg |-> co2_data.co2_kg,
         cost_inr |-> cost_data.total_cost,
         health_benefits |-> calculate_health_benefits(mode, distance_hm),
         details |-> [distance_km |-> distance_hm, duration_min |-> duration_min, mode |-> mode]]

calculate_eco_score(mode, distance_hm, duration_min) ==
    LET co2_data   == calculate_co2_emissions(mode, distance_hm, "None")
        cost_data  == calculate_cost(mode, distance_hm, duration_min, "None")
        co2_score  == _calculate_co2_score(co2_data.co2_kg, distance_hm)
        cost_score == _calculate_cost_score(cost_data.total_cost, distance_hm)
        time_score == _calculate_time_score(duration_min, distance_hm)
        mode_score == _calculate_mode_score(mode)
        health_score     == _calculate_health_score(mode, distance_hm)
        congestion_score == _calculate_congestion_score(mode, duration_min)
        weights    == ECO_SCORE_WEIGHTS
        weighted   == (co2_score * weights.co2_emissions
                       + cost_score * weights.cost_efficiency
                       + time_score * weights.time_efficiency
                       + mode_score * weights.mode_sustainability) \div 100
        bonus      == IF mode \in {TransportMode["BIKE"], TransportMode["WALK"]}
                      THEN health_score \div 10 ELSE 0
        weighted_score == weighted + bonus - congestion_score \div 20
        final_score    == ClampScore(weighted_score)
        category       == _get_eco_score_category(final_score)
    IN  [score |-> final_score,
         category |-> category,
         color |-> ECO_SCORE_COLORS[category],
         components |-> [co2_score |-> co2_score, cost_score |-> cost_score,
                         time_score |-> time_score, mode_score |-> mode_score,
                         health_score |-> health_score,
                         congestion_score |-> congestion_score],
         co2_kg |-> co2_data.co2_kg,
         cost_inr |-> cost_data.total_cost,
         health_benefits |-> calculate_health_benefits(mode, distance_hm),
         details |-> [distance_km |-> distance_hm, duration_min |-> duration_min, mode |-> mode]]

\* ------------------------------------------------------------------------
\* src/api/route_service.py: RouteService
\*
\* The module imports TransportMode from utils.constants.  Reading a member
\* the enumeration does not have raises AttributeError, and TransportMode(v)
\* raises ValueError for a value it does not have.
\* ------------------------------------------------------------------------

HasMembers(names) == names \subseteq DOMAIN TransportMode

\* The members the mode_mapping literal of __init__ (lines 23-29) and the
\* speed_kmh literal of _create_basic_route (lines 217-223) read.
ApiLiteralMembers == {"CAR", "METRO", "BUS", "WALKING", "BICYCLE"}

\* RouteService.__init__
ApiRouteServiceInit(api_key) ==
    IF HasMembers(ApiLiteralMembers)
    THEN [kind |-> "service", gmaps |-> api_key # "None"]
    ELSE Raised("AttributeError")

\* RouteService._decode_polyline
Api_decode_polyline(encoded_polyline) ==
    IF PolylineDecode(encoded_polyline).ok
    THEN PolylineDecode(encoded_polyline).path
    ELSE <<>>

ApiStepInfo(step, i) ==
    [step |-> i,
     mode |-> Lower(step.travel_mode),
     polyline |-> step.polyline,
     decoded_path |-> Api_decode_polyline(step.polyline),
     transit |-> IF AppHasTransit(step)
                 THEN [vehicle |-> step.transit_details.vehicle_type]
                 ELSE None]

\* RouteService._extract_route_info
Api_extract_route_info(route_data, mode) ==
    IF route_data.legs = <<>>
    THEN Raised("IndexError")
    ELSE LET leg   == route_data.legs[1]
             steps == [i \in 1..Len(leg.steps) |-> ApiStepInfo(leg.steps[i], i)]
             transit_segments == SelectTransit(steps)
             overall_polyline == route_data.overview_polyline
         IN  [kind |-> "route",
              mode |-> mode,
              start_location |-> leg.start_location,
              end_location |-> leg.end_location,
              total_distance_meters |-> leg.distance,
              total_duration_seconds |-> leg.duration,
              polyline |-> Str(overall_polyline),
              decoded_path |-> IF overall_polyline # ""
                               THEN Api_decode_polyline(overall_polyline) ELSE <<>>,
              steps |-> steps,
              transit_segments |-> IF transit_segments # <<>> THEN List(transit_segments) ELSE None,
              warnings |-> IF route_data.warnings = None THEN List(<<>>) ELSE route_data.warnings,
              is_realistic |-> TRUE]

\* The parameters of EcoScorer.calculate_eco_score (eco_scorer.py line 33)
\* and the keywords _calculate_route_metrics passes (lines 175-182).
EcoScorerParameters == {"mode", "distance_km", "duration_min", "route_details"}

ApiEcoScoreKeywords == {"mode", "distance_km", "duration_min", "cost_inr", "co2_kg", "priority"}

\* RouteService._calculate_route_metrics
Api_calculate_route_metrics(route_summary, mode, priority) ==
    LET distance_hm  == RoundDiv(route_summary.total_distance_meters, 100)
        duration_min == RoundDiv(route_summary.total_duration_seconds, 60)
        emissions    == calculate_co2_emissions(mode, distance_hm, "None")
        cost         == calculate_cost(mode, distance_hm, duration_min, "None")
    IN  IF ~(ApiEcoScoreKeywords \subseteq EcoScorerParameters)
        THEN Raised("TypeError")
        ELSE [f \in DOMAIN route_summary \cup {"total_distance_km", "total_duration_min", "cost_inr",
                                               "co2_emissions_kg", "eco_score", "priority"} |->
                CASE f = "total_distance_km" -> distance_hm
                  [] f = "total_duration_min" -> duration_min
                  [] f = "cost_inr" -> cost.total_cost
                  [] f = "co2_emissions_kg" -> emissions.co2_kg
                  [] f = "eco_score" -> calculate_eco_score(mode, distance_hm, duration_min)
                  [] f = "priority" -> priority
                  [] OTHER -> route_summary[f]]

\* The speed_kmh table of _create_basic_route, .get(mode, 20).
ApiSpeedKmh(mode) ==
    CASE mode = "car" -> 40
      [] mode = "metro" -> 30
      [] mode = "bus" -> 20
      [] OTHER -> 20

\* RouteService._create_basic_route: the speed_kmh literal is evaluated
\* after the Haversine distance and before anything else.
Api_create_basic_route(start_coords, end_coords, mode) ==
    LET distance_m   == HaversineMetres[<<start_coords, end_coords>>]
        distance_hm  == RoundDiv(distance_m, 100)
        duration_min == RoundMulDiv(distance_m, 3, 50 * ApiSpeedKmh(mode))
        emissions    == calculate_co2_emissions(mode, distance_hm, "None")
        cost         == calculate_cost(mode, distance_hm, duration_min, "None")
        eco_score    == Max(0, Min(Points(100),
                            ((Points(100) - emissions.co2_kg \div 100) * 7) \div 10
                            + ((Points(100) - Points(duration_min)) * 2) \div 10
                            + (Points(100) - (cost.total_cost * 10) \div 3) \div 10))
    IN  IF distance_m = DomainError THEN Raised("ValueError")
        ELSE IF ~HasMembers(ApiLiteralMembers) THEN Raised("AttributeError")
        ELSE [kind |-> "route",
              mode |-> mode,
              start_location |-> start_coords,
              end_location |-> end_coords,
              total_distance_km |-> distance_hm,
              total_duration_min |-> duration_min,
              cost_inr |-> cost.total_cost,
              co2_emissions_kg |-> emissions.co2_kg,
              eco_score |-> eco_score,
              polyline |-> None,
              decoded_path |-> <<start_coords, end_coords>>,
              steps |-> << [step |-> 1, mode |-> mode] >>,
              is_realistic |-> FALSE,
              warning |-> EstimatedNotice]

\* self.gmaps.directions(...) of line 57: the routes, nothing when it raises.
ApiDirections(outcome) ==
    IF outcome.kind = "raises" THEN <<>> ELSE outcome.routes

\* RouteService.calculate_route (lines 48-91): the value returned and the
\* number of directions queries issued.  Every exception ends in
\* `except Exception: return None`.
Api_calculate_route(self, start_coords, end_coords, mode, priority, outcome) ==
    IF mode \notin TransportModeValues
    THEN [result |-> None, calls |-> 0]                      \* TransportMode(mode): ValueError
    ELSE IF self.gmaps
    THEN IF ApiDirections(outcome) = <<>>
         THEN [result |-> None, calls |-> 1]
         ELSE LET route_summary == Api_extract_route_info(ApiDirections(outcome)[1], mode)
                  with_metrics  == Api_calculate_route_metrics(route_summary, mode, priority)
              IN  IF route_summary.kind = "raised" \/ with_metrics.kind = "raised"
                  THEN [result |-> None, calls |-> 1]
                  ELSE [result |-> with_metrics, calls |-> 1]
    ELSE LET basic == Api_create_basic_route(start_coords, end_coords, mode)
         IN  [result |-> IF basic.kind = "raised" THEN None ELSE basic, calls |-> 0]

\* ------------------------------------------------------------------------
\* src/app.py: RouteService.calculate_route
\* ------------------------------------------------------------------------

\* Lines 187-202: the rest of calculate_route once get_directions returned.
AppAfterDirections(routes, start_coords, end_coords, mode, priority) ==
    IF routes = <<>>
    THEN App_create_basic_route(start_coords, end_coords, mode)
    ELSE LET processed_route == App_process_google_route(routes[1], mode)
         IN  IF processed_route.kind = "raised"
             THEN \* except Exception: the handler builds the basic route
                  App_create_basic_route(start_coords, end_coords, mode)
             ELSE App_calculate_metrics(processed_route, mode, priority)

\* Variant: an empty answer sends calculate_route back to the query.
RetryWhenEmpty(routes) == IF routes = <<>> THEN "query" ELSE "returned"

\* Where calculate_route stands once lines 187-202 have run: every branch
\* returns, none queries the provider again.
AppAfterDirectionsPc(routes) == "returned"

\* RouteService.__init__ (calculate_routes builds the service with the
\* client when an API key is set, without one otherwise).
AppInit(client) ==
    /\ pc = "idle"
    /\ google_client' = client
    /\ UNCHANGED <<pc, req, providerCalls, directions, result, previous>>

\* calculate_route up to the directions query: without a client the basic
\* route is returned at once.
AppCalculateRoute(start_coords, end_coords, mode, priority) ==
    /\ pc = "idle"
    /\ req' = [op |-> "app.calculate_route", start_coords |-> start_coords,
               end_coords |-> end_coords, mode |-> mode, priority |-> priority]
    /\ providerCalls' = 0
    /\ directions' = None
    /\ IF ~google_client
       THEN /\ result' = App_create_basic_route(start_coords, end_coords, mode)
            /\ pc' = "returned"
       ELSE /\ result' = None
            /\ pc' = "query"
    /\ UNCHANGED <<google_client, previous>>

\* The directions query is answered (or raises) and calculate_route runs to
\* its return.
AppDirections(outcome) ==
    /\ pc = "query"
    /\ req.op = "app.calculate_route"
    /\ providerCalls' = providerCalls + 1
    /\ directions' = List(AppGetDirections(outcome))
    /\ result' = AppAfterDirections(AppGetDirections(outcome), req.start_coords,
                                    req.end_coords, req.mode, req.priority)
    /\ pc' = AppAfterDirectionsPc(AppGetDirections(outcome))
    /\ UNCHANGED <<google_client, req, previous>>

\* RoutePriority of utils/constants.py (values).
ApiPriorities == {"Most Eco-Friendly", "Fastest", "Cheapest", "Balanced", "Most Comfortable"}

ApiKeys == {"None", "key"}

\* A caller of the library service: RouteService(api_key) followed by
\* calculate_route(...) on it; the directions query, if one is issued, is
\* answered by `outcome`.
ApiCalculateRoute(api_key, start_coords, end_coords, mode, priority, outcome) ==
    /\ pc = "idle"
    /\ req' = [op |-> "api.calculate_route", api_key |-> api_key, start_coords |-> start_coords,
               end_coords |-> end_coords, mode |-> mode, priority |-> priority]
    /\ LET self == ApiRouteServiceInit(api_key)
       IN  IF self.kind = "raised"
           THEN /\ result' = self
                /\ providerCalls' = 0
                /\ directions' = None
           ELSE LET call == Api_calculate_route(self, start_coords, end_coords, mode, priority, outcome)
                IN  /\ result' = call.result
                    /\ providerCalls' = call.calls
                    /\ directions' = IF call.calls > 0 THEN List(ApiDirections(outcome)) ELSE None
    /\ pc' = "returned"
    /\ UNCHANGED <<google_client, previous>>

\* The caller takes the result; the service is ready for the next request.
Return ==
    /\ pc = "returned"
    /\ pc' = "idle"
    /\ req' = NoReq
    /\ providerCalls' = 0
    /\ directions' = None
    /\ result' = None
    /\ UNCHANGED <<google_client, previous>>

Init ==
    /\ google_client \in BOOLEAN
    /\ pc = "idle"
    /\ req = NoReq
    /\ providerCalls = 0
    /\ directions = None
    /\ result = None
    /\ previous = NoReq

Next ==
    \/ /\ pc = "idle"
       /\ \E client \in BOOLEAN : AppInit(client)
    \/ /\ pc = "idle"
       /\ \E s \in Coords, e \in Coords, m \in RequestModes, p \in AppPriorities :
             AppCalculateRoute(s, e, m, p)
    \/ /\ pc = "query"
       /\ \E o \in ProviderOutcomes : AppDirections(o)
    \/ /\ pc = "idle"
       /\ \E k \in ApiKeys, s \in Coords, e \in Coords, m \in RequestModes,
             p \in ApiPriorities, o \in ProviderOutcomes :
             ApiCalculateRoute(k, s, e, m, p, o)
    \/ Return

Spec == Init /\ [][Next]_vars

\* ------------------------------------------------------------------------
\* Callers of the calculators
\* ------------------------------------------------------------------------

MaxDistanceHm == 260

MaxDurationSteps == 18

\* Distances in hectometres: every 100 m up to 26 km.
Distances == 0..MaxDistanceHm

\* Durations in minutes: every quarter of an hour, the minutes around the
\* hour marks of the parking fee, and two durations (10, 100) at which a car
\* and a bus ride score exactly 20 and 80 points.
Durations == {15 * k : k \in 0..MaxDurationSteps} \cup {1, 59, 61, 121} \cup {10, 100}

TimesOfDay == {"None", "peak", "off_peak"}

VehicleTypes == {"None", "petrol", "diesel", "cng", "electric", "hybrid"}

\* EcoScorer.calculate_eco_score(mode, distance_km, duration_min)
EcoScoreCall(mode, distance_hm, duration_min) ==
    /\ pc = "idle"
    /\ req' = [op |-> "calculate_eco_score", mode |-> mode,
               distance_hm |-> distance_hm, duration_min |-> duration_min]
    /\ result' = calculate_eco_score(mode, distance_hm, duration_min)
    /\ pc' = "returned"
    /\ UNCHANGED <<google_client, providerCalls, directions, previous>>

\* CostCalculator.calculate_cost(mode, distance_km, duration_min, time_of_day)
CostCall(mode, distance_hm, duration_min, time_of_day) ==
    /\ pc = "idle"
    /\ req' = [op |-> "calculate_cost", mode |-> mode, distance_hm |-> distance_hm,
               duration_min |-> duration_min, time_of_day |-> time_of_day]
    /\ result' = calculate_cost(mode, distance_hm, duration_min, time_of_day)
    /\ pc' = "returned"
    /\ UNCHANGED <<google_client, providerCalls, directions, previous>>

\* EmissionCalculator.calculate_co2_emissions(mode, distance_km, vehicle_type)
EmissionCall(mode, distance_hm, vehicle_type) ==
    /\ pc = "idle"
    /\ req' = [op |-> "calculate_co2_emissions", mode |-> mode, distance_hm |-> distance_hm,
               vehicle_type |-> vehicle_type]
    /\ result' = calculate_co2_emissions(mode, distance_hm, vehicle_type)
    /\ pc' = "returned"
    /\ UNCHANGED <<google_client, providerCalls, directions, previous>>

NextCalc ==
    \/ /\ pc = "idle"
       /\ \E m \in TransportModeValues, d \in Distances, t \in Durations :
             EcoScoreCall(m, d, t)
    \/ /\ pc = "idle"
       /\ \E m \in TransportModeValues, d \in Distances, t \in Durations, tod \in TimesOfDay :
             CostCall(m, d, t, tod)
    \/ /\ pc = "idle"
       /\ \E m \in TransportModeValues, d \in Distances, v \in VehicleTypes :
             EmissionCall(m, d, v)
    \/ Return

\* The calculators are used without a route service client.
InitCalc == Init /\ ~google_client

SpecCalc == InitCalc /\ [][NextCalc]_vars

\* ------------------------------------------------------------------------
\* A caller that makes one calculator call after another and keeps the
\* previous answer to compare with.
\* ------------------------------------------------------------------------

MaxMonoSteps == 25

\* Every kilometre, and the first 100 m past the bus tier at 2 km, the bus
\* tier at 15 km and the toll threshold at 20 km.
MonoDistances == {10 * k : k \in 0..MaxMonoSteps} \cup {21, 151, 201}

MonoDurations == {5, 70}

ReturnKeep ==
    /\ pc = "returned"
    /\ previous' = [op |-> req.op, req |-> req, result |-> result]
    /\ pc' = "idle"
    /\ req' = NoReq
    /\ result' = None
    /\ UNCHANGED <<google_client, providerCalls, directions>>

NextMono ==
    \/ /\ pc = "idle"
       /\ \E m \in TransportModeValues, d \in MonoDistances, t \in MonoDurations :
             CostCall(m, d, t, "None")
    \/ /\ pc = "idle"
       /\ \E m \in TransportModeValues, d \in MonoDistances :
             EmissionCall(m, d, "None")
    \/ ReturnKeep

SpecMono == InitCalc /\ [][NextMono]_vars

\* ------------------------------------------------------------------------
\* A caller that remembers one earlier calculator call, makes any number of
\* other calls, and compares when the remembered call is made again.
\* ------------------------------------------------------------------------

MaxRepeatSteps == 6

\* Every 4 km up to 24 km.
RepeatDistances == {40 * k : k \in 0..MaxRepeatSteps}

RepeatDurations == {0, 20, 90}

NextRepeat ==
    \/ /\ pc = "idle"
       /\ \E m \in TransportModeValues, d \in RepeatDistances, t \in RepeatDurations :
             EcoScoreCall(m, d, t)
    \/ /\ pc = "idle"
       /\ \E m \in TransportModeValues, d \in RepeatDistances, t \in RepeatDurations :
             CostCall(m, d, t, "None")
    \/ /\ pc = "idle"
       /\ \E m \in TransportModeValues, d \in RepeatDistances :
             EmissionCall(m, d, "None")
    \/ ReturnKeep
    \/ Return

SpecRepeat == InitCalc /\ [][NextRepeat]_vars

\* ------------------------------------------------------------------------
\* src/utils/route_processor.py: RouteProcessor
\*
\* A route of the filter is a dictionary read with the keys 'segments',
\* 'actual_mode', 'duration_min' and 'distance_km'; a key the dictionary
\* does not have is a field the record does not have.  distance_km is in
\* hectometres.  A segment's 'distance' is a text: Km(m) is the text of m
\* metres written in kilometres ("0.4 km"), Metres(m) the text written in
\* metres ("90 m").
\* ------------------------------------------------------------------------

Km(m) == [unit |-> "km", value |-> m]

Metres(m) == [unit |-> "m", value |-> m]

\* dict.get(key, default)
Get(d, key, default) == IF key \in DOMAIN d THEN d[key] ELSE default

\* The criteria table of get_practical_routes; max_walk_distance in metres.
Criteria ==
    [p \in {"fastest", "cheapest", "greenest", "balanced"} |->
        CASE p = "fastest"  -> [max_walk_distance |-> 1000, max_transfers |-> 2, min_metro_priority |-> TRUE]
          [] p = "cheapest" -> [max_walk_distance |-> 1500, max_transfers |-> 3, min_metro_priority |-> FALSE]
          [] p = "greenest" -> [max_walk_distance |-> 2000, max_transfers |-> 2, min_metro_priority |-> TRUE]
          [] p = "balanced" -> [max_walk_distance |-> 1200, max_transfers |-> 2, min_metro_priority |-> TRUE]]

\* criteria.get(preference, criteria['balanced'])
CriteriaConfig(preference) ==
    IF preference \in DOMAIN Criteria THEN Criteria[preference] ELSE Criteria["balanced"]

\* float(segment['distance'].replace(' km', '')) in metres; a text that is
\* not a number followed by ' km' makes float() raise, and the segment is
\* passed over (except: pass).
WalkDistance(segment) ==
    IF segment.distance.unit = "km" THEN segment.distance.value ELSE 0

RECURSIVE TotalWalkDistance(_)
TotalWalkDistance(segments) ==
    IF segments = <<>> THEN 0
    ELSE (IF segments[1].mode = "walk" THEN WalkDistance(segments[1]) ELSE 0)
         + TotalWalkDistance(Tail(segments))

\* The loop of _count_transfers: prev_mode is "" before the first segment.
RECURSIVE ModeChanges(_, _)
ModeChanges(segments, prev_mode) ==
    IF segments = <<>> THEN 0
    ELSE LET current_mode == segments[1].mode
         IN  (IF prev_mode # "" /\ prev_mode # current_mode /\ current_mode \in {"metro", "bus"}
              THEN 1 ELSE 0)
             + ModeChanges(Tail(segments), current_mode)

\* Variant: the first boarding is counted as a transfer (compare
\* _count_transfers).
TransfersWithBoarding(route) ==
    IF "segments" \notin DOMAIN route THEN 0
    ELSE Max(0, ModeChanges(route.segments, ""))

_count_transfers(route) ==
    IF "segments" \notin DOMAIN route THEN 0
    ELSE Max(0, ModeChanges(route.segments, "") - 1)

\* A filter that keeps a bus route of up to 30 minutes (compare
\* _is_practical_route).
BusKeptAtThirty(route, criteria) ==
    LET total_walk_distance == IF "segments" \in DOMAIN route
                               THEN TotalWalkDistance(route.segments) ELSE 0
        actual_mode == Get(route, "actual_mode", "")
    IN  IF total_walk_distance > criteria.max_walk_distance THEN FALSE
        ELSE IF actual_mode \in {"metro", "bus"} /\ _count_transfers(route) > criteria.max_transfers
        THEN FALSE
        ELSE IF criteria.min_metro_priority /\ actual_mode = "bus"
        THEN Get(route, "duration_min", 999) <= 30
        ELSE TRUE

_is_practical_route(route, criteria) ==
    LET total_walk_distance == IF "segments" \in DOMAIN route
                               THEN TotalWalkDistance(route.segments) ELSE 0
        actual_mode == Get(route, "actual_mode", "")
    IN  IF total_walk_distance > criteria.max_walk_distance THEN FALSE
        ELSE IF actual_mode \in {"metro", "bus"} /\ _count_transfers(route) > criteria.max_transfers
        THEN FALSE
        ELSE IF criteria.min_metro_priority /\ actual_mode = "bus"
        THEN Get(route, "duration_min", 999) < 30
        ELSE TRUE

\* distance * costs_per_km.get(mode, 5), in 1/10 INR.
_estimate_cost(route) ==
    LET mode == Get(route, "actual_mode", "")
        per_km == CASE mode = "driving" -> 10
                    [] mode = "metro" -> 5
                    [] mode = "bus" -> 2
                    [] mode \in {"bicycling", "walking"} -> 0
                    [] OTHER -> 5
    IN  Get(route, "distance_km", 0) * per_km

\* distance * emissions_per_km.get(mode, 0.1), in 1/10 g.
_estimate_emissions(route) ==
    LET mode == Get(route, "actual_mode", "")
        g_per_km == CASE mode = "driving" -> 192
                      [] mode = "metro" -> 96
                      [] mode = "bus" -> 89
                      [] mode \in {"bicycling", "walking"} -> 0
                      [] OTHER -> 100
    IN  Get(route, "distance_km", 0) * g_per_km

RECURSIVE WalkSegments(_)
WalkSegments(segments) ==
    IF segments = <<>> THEN 0
    ELSE (IF segments[1].mode = "walk" THEN 1 ELSE 0) + WalkSegments(Tail(segments))

\* _calculate_balance_score in millionths, each term rounded down.
_calculate_balance_score(route) ==
    LET time_score     == 400000 \div (Get(route, "duration_min", 1) + 1)
        cost_score     == 3000000 \div (_estimate_cost(route) + 10)
        emission_score == 2000000000 \div (_estimate_emissions(route) + 1000)
        convenience_score ==
            IF "segments" \in DOMAIN route
            THEN 100000 \div ((_count_transfers(route) + 1) * (WalkSegments(route.segments) + 1))
            ELSE 100000
    IN  time_score + cost_score + emission_score + convenience_score

\* Variant: an item is put before the items of equal key (compare
\* InsertByKey).
RECURSIVE InsertBeforeEqual(_, _)
InsertBeforeEqual(x, sorted) ==
    IF sorted = <<>> THEN <<x>>
    ELSE IF sorted[Len(sorted)].key < x.key THEN Append(sorted, x)
    ELSE Append(InsertBeforeEqual(x, SubSeq(sorted, 1, Len(sorted) - 1)), sorted[Len(sorted)])

\* list.sort(key=...): ascending in the key, equal keys keep their order.
RECURSIVE InsertByKey(_, _)
InsertByKey(x, sorted) ==
    IF sorted = <<>> THEN <<x>>
    ELSE IF sorted[Len(sorted)].key <= x.key THEN Append(sorted, x)
    ELSE Append(InsertByKey(x, SubSeq(sorted, 1, Len(sorted) - 1)), sorted[Len(sorted)])

RECURSIVE SortByKey(_)
SortByKey(keyed) ==
    IF keyed = <<>> THEN <<>>
    ELSE InsertByKey(keyed[Len(keyed)], SortByKey(SubSeq(keyed, 1, Len(keyed) - 1)))

\* The routes of routes_dict that are kept, in the dictionary's order.
RECURSIVE PracticalOf(_, _)
PracticalOf(items, criteria_config) ==
    IF items = <<>> THEN <<>>
    ELSE LET rest == PracticalOf(Tail(items), criteria_config)
         IN  IF DOMAIN items[1].route = {} \/ items[1].route = None
             THEN rest                                          \* if not route: continue
             ELSE IF _is_practical_route(items[1].route, criteria_config)
             THEN <<items[1]>> \o rest
             ELSE rest

\* The key the sort of lines 59-66 uses for a route.
SortKey(route, preference) ==
    CASE preference = "fastest" -> route.duration_min
      [] preference = "cheapest" -> _estimate_cost(route)
      [] preference = "greenest" -> _estimate_emissions(route)
      [] OTHER -> _calculate_balance_score(route)

\* get_practical_routes: routes_dict is the mapping as the sequence of its
\* items; the result is the returned mapping, in its order of iteration.
get_practical_routes(routes_dict, preference) ==
    LET practical_routes == PracticalOf(routes_dict, CriteriaConfig(preference))
        n == Len(practical_routes)
    IN  IF preference = "fastest"
           /\ \E i \in 1..n : "duration_min" \notin DOMAIN practical_routes[i].route
        THEN Raised("KeyError")                                  \* x[1]['duration_min']
        ELSE LET keyed  == [i \in 1..n |->
                               [key |-> SortKey(practical_routes[i].route, preference),
                                item |-> practical_routes[i]]]
                 sorted == SortByKey(keyed)
             IN  List([i \in 1..n |-> sorted[i].item])

\* ------------------------------------------------------------------------
\* A caller of the practicality filter
\* ------------------------------------------------------------------------

MaxRoutes == 3

Seg(mode, distance) == [mode |-> mode, distance |-> distance]

\* A car route: no 'segments'.
DrivingRoute ==
    [actual_mode |-> "driving", duration_min |-> 25, distance_km |-> 120]

\* Cumulative walking distances (metres) on and just past the four caps.
WalkProbes == {700, 1000, 1100, 1200, 1300, 1500, 1600, 2000, 2100}

\* A metro ride between two walks of 300 m and walk_m - 300 m.
MetroRoute(walk_m) ==
    [actual_mode |-> "metro", duration_min |-> 30 + walk_m \div 100, distance_km |-> 140,
     segments |-> << Seg("walk", Km(300)), Seg("metro", Km(13000)), Seg("walk", Km(walk_m - 300)) >>]

BusDurations == {20, 29, 30, 45}

\* A bus ride after a short walk.
BusRoute(duration_min) ==
    [actual_mode |-> "bus", duration_min |-> duration_min, distance_km |-> 2 * duration_min,
     segments |-> << Seg("walk", Km(200)), Seg("bus", Km(200 * duration_min - 200)) >>]

ChangeCounts == {3, 4, 5}

\* A metro route of changes + 1 rides, alternately by metro and by bus.
ChangingRoute(changes) ==
    [actual_mode |-> "metro", duration_min |-> 40 + changes, distance_km |-> 100 + changes,
     segments |-> [i \in 1..(changes + 1) |->
                      Seg(IF i % 2 = 1 THEN "metro" ELSE "bus", Km(2000))]]

\* A metro ride after a walk of 1 km and before one of 90 m, which the
\* provider writes in metres.
MetresWalkRoute ==
    [actual_mode |-> "metro", duration_min |-> 28, distance_km |-> 100,
     segments |-> << Seg("walk", Km(1000)), Seg("metro", Km(9000)), Seg("walk", Metres(90)) >>]

\* The items a routes_dict is made of: key and route; one key has no route
\* (None), one an empty route ({}).
FilterItems ==
    {[key |-> <<"driving", 0>>, route |-> DrivingRoute],
     [key |-> <<"metres", 0>>, route |-> MetresWalkRoute],
     [key |-> <<"none", 0>>, route |-> None],
     [key |-> <<"empty", 0>>, route |-> <<>>]}
    \cup {[key |-> <<"metro", w>>, route |-> MetroRoute(w)] : w \in WalkProbes}
    \cup {[key |-> <<"bus", d>>, route |-> BusRoute(d)] : d \in BusDurations}
    \cup {[key |-> <<"changing", c>>, route |-> ChangingRoute(c)] : c \in ChangeCounts}

\* Mappings of at most MaxRoutes items, as the sequence of their items.
RoutesDicts ==
    UNION {{d \in [1..n -> FilterItems] : \A i, j \in 1..n : i # j => d[i].key # d[j].key}
           : n \in 0..MaxRoutes}

FilterPreferences == {"fastest", "cheapest", "greenest", "balanced", "scenic"}

\* RouteProcessor.get_practical_routes(routes_dict, preference)
FilterCall(routes_dict, preference) ==
    /\ pc = "idle"
    /\ req' = [op |-> "get_practical_routes", routes_dict |-> routes_dict,
               preference |-> preference]
    /\ result' = get_practical_routes(routes_dict, preference)
    /\ pc' = "returned"
    /\ UNCHANGED <<google_client, providerCalls, directions, previous>>

NextFilter ==
    \/ /\ pc = "idle"
       /\ \E d \in RoutesDicts, p \in FilterPreferences : FilterCall(d, p)
    \/ Return

SpecFilter == InitCalc /\ [][NextFilter]_vars

\* ------------------------------------------------------------------------
\* src/api/route_service.py: RouteService.compare_routes and its caller.
\* routes is the mapping as the sequence of its items [mode, route].
\* ------------------------------------------------------------------------

\* max(routes.items(), key=...): the first item with the largest key.
RECURSIVE FirstMax(_, _)
FirstMax(items, field) ==
    IF Len(items) = 1 THEN items[1]
    ELSE LET best == FirstMax(SubSeq(items, 1, Len(items) - 1), field)
             last == items[Len(items)]
         IN  IF last.route[field] > best.route[field] THEN last ELSE best

\* min(routes.items(), key=...): the first item with the smallest key.
RECURSIVE FirstMin(_, _)
FirstMin(items, field) ==
    IF Len(items) = 1 THEN items[1]
    ELSE LET best == FirstMin(SubSeq(items, 1, Len(items) - 1), field)
             last == items[Len(items)]
         IN  IF last.route[field] < best.route[field] THEN last ELSE best

\* RouteService.compare_routes
Api_compare_routes(routes) ==
    IF routes = <<>> THEN [kind |-> "dict", empty |-> TRUE]
    ELSE LET best_eco == FirstMax(routes, "eco_score")
             fastest  == FirstMin(routes, "total_duration_min")
             cheapest == FirstMin(routes, "cost_inr")
         IN  [kind |-> "dict", empty |-> FALSE,
              comparison |-> [i \in 1..Len(routes) |->
                                 [mode |-> routes[i].mode,
                                  distance_km |-> routes[i].route.total_distance_km,
                                  duration_min |-> routes[i].route.total_duration_min,
                                  cost_inr |-> routes[i].route.cost_inr,
                                  co2_kg |-> routes[i].route.co2_emissions_kg,
                                  eco_score |-> routes[i].route.eco_score]],
              best_eco |-> [mode |-> best_eco.mode, score |-> best_eco.route.eco_score],
              fastest  |-> [mode |-> fastest.mode, time |-> fastest.route.total_duration_min],
              cheapest |-> [mode |-> cheapest.mode, cost |-> cheapest.route.cost_inr]]

\* The annotated routes compared: two values of each field that is compared,
\* so that ties happen.
ComparedRoutes ==
    [total_distance_km : {80}, total_duration_min : {20, 30}, cost_inr : {0, 50},
     co2_emissions_kg : {1}, eco_score : {40, 70}]

ComparedModes == {"car", "metro", "bus"}

ComparedMaps ==
    UNION {{d \in [1..n -> [mode : ComparedModes, route : ComparedRoutes]] :
               \A i, j \in 1..n : i # j => d[i].mode # d[j].mode}
           : n \in 0..Min(MaxRoutes, 3)}

\* RouteService(api_key).compare_routes(routes)
ApiCompareRoutes(api_key, routes) ==
    /\ pc = "idle"
    /\ req' = [op |-> "api.compare_routes", api_key |-> api_key, routes |-> routes]
    /\ LET self == ApiRouteServiceInit(api_key)
       IN  result' = IF self.kind = "raised" THEN self ELSE Api_compare_routes(routes)
    /\ pc' = "returned"
    /\ UNCHANGED <<google_client, providerCalls, directions, previous>>

NextCompare ==
    \/ /\ pc = "idle"
       /\ \E k \in ApiKeys, d \in ComparedMaps : ApiCompareRoutes(k, d)
    \/ Return

SpecCompare == InitCalc /\ [][NextCompare]_vars

\* ------------------------------------------------------------------------
\* src/app.py: calculate_routes, and a caller that hands its routes to the
\* practicality filter
\* ------------------------------------------------------------------------

MaxModes == 2

\* What gmaps.geocode does for an address: it raises, finds nothing, or finds
\* a location.
GeocodeOutcomes ==
    {[kind |-> "raises"], [kind |-> "empty"], [kind |-> "found", location |-> Airport]}

\* GoogleMapsClient.geocode: the location, None when the lookup raises or
\* finds nothing.
AppGeocode(outcome) ==
    IF outcome.kind = "found" THEN outcome.location ELSE None

\* The answers of the directions provider to the queries of one request.
PlanOutcomes ==
    {[kind |-> "raises"], [kind |-> "ok", routes |-> <<DrivingResponse>>],
     [kind |-> "ok", routes |-> <<TransitResponse>>]}

\* The selected modes, in the order of selection, with the provider's answer
\* to the query each one makes.
ModeSelections ==
    UNION {{d \in [1..n -> [mode : AppModes, outcome : PlanOutcomes]] :
               \A i, j \in 1..n : i # j => d[i].mode # d[j].mode}
           : n \in 1..MaxModes}

\* calculate_route as calculate_routes calls it: with a client the provider
\* is queried once, without one the basic route is built.
App_calculate_route(has_client, start_coords, end_coords, mode, priority, outcome) ==
    IF has_client
    THEN AppAfterDirections(AppGetDirections(outcome), start_coords, end_coords, mode, priority)
    ELSE App_create_basic_route(start_coords, end_coords, mode)

\* balanced_score of calculate_routes, times 10000.
BalancedScore(route) ==
    400 * route.eco_score + 300000 - 100 * route.total_duration_min
        + 300000 - 6 * route.cost_inr

RECURSIVE FirstMaxBalanced(_)
FirstMaxBalanced(items) ==
    IF Len(items) = 1 THEN items[1]
    ELSE LET best == FirstMaxBalanced(SubSeq(items, 1, Len(items) - 1))
             last == items[Len(items)]
         IN  IF BalancedScore(last.route) > BalancedScore(best.route) THEN last ELSE best

\* The mode calculate_routes recommends.
BestMode(routes, priority) ==
    CASE priority = "eco_friendly" -> FirstMax(routes, "eco_score").mode
      [] priority = "fastest" -> FirstMin(routes, "total_duration_min").mode
      [] priority = "cheapest" -> FirstMin(routes, "cost_inr").mode
      [] OTHER -> FirstMaxBalanced(routes).mode

\* The routes of the loop over the modes: a falsy route is not stored.
RECURSIVE RoutesOf(_, _, _, _, _)
RoutesOf(selection, has_client, start_coords, end_coords, priority) ==
    IF selection = <<>> THEN <<>>
    ELSE LET route == App_calculate_route(has_client, start_coords, end_coords,
                                          selection[1].mode, priority, selection[1].outcome)
             rest  == RoutesOf(Tail(selection), has_client, start_coords, end_coords, priority)
         IN  IF route = None THEN rest
             ELSE <<[mode |-> selection[1].mode, route |-> route]>> \o rest

\* calculate_routes(source, destination, modes, priority, has_api_key,
\* api_key): the session state it leaves.
CalculateRoutes(has_api_key, source, destination, selection, priority) ==
    /\ pc = "idle"
    /\ req' = [op |-> "calculate_routes", has_api_key |-> has_api_key, source |-> source,
               destination |-> destination, selection |-> selection, priority |-> priority]
    /\ LET geocoded_start == IF has_api_key THEN AppGeocode(source) ELSE None
           geocoded_end   == IF has_api_key THEN AppGeocode(destination) ELSE None
           start_coords   == IF geocoded_start = None THEN MapCenter ELSE geocoded_start
           end_coords     == IF geocoded_end = None THEN MapCenterOffset ELSE geocoded_end
           routes         == RoutesOf(selection, has_api_key, start_coords, end_coords, priority)
       IN  /\ result' =
                 IF \E i \in 1..Len(routes) : routes[i].route.kind = "raised"
                 THEN [kind |-> "error"]                         \* except Exception
                 ELSE IF routes = <<>> THEN [kind |-> "no_routes"]
                 ELSE [kind |-> "routes", routes |-> routes,
                       selected_mode |-> BestMode(routes, priority),
                       start_coords |-> start_coords, end_coords |-> end_coords]
           /\ providerCalls' = IF has_api_key THEN Len(selection) ELSE 0
    /\ google_client' = has_api_key
    /\ directions' = None
    /\ pc' = "returned"
    /\ UNCHANGED previous

\* The routes of the session are given to get_practical_routes.
FilterSessionRoutes(preference) ==
    /\ pc = "returned"
    /\ req.op = "calculate_routes"
    /\ result.kind = "routes"
    /\ req' = [op |-> "filter_session_routes", preference |-> preference,
               routes_dict |-> [i \in 1..Len(result.routes) |->
                                   [key |-> <<result.routes[i].mode, 0>>,
                                    route |-> result.routes[i].route]]]
    /\ result' = get_practical_routes(
                    [i \in 1..Len(result.routes) |->
                        [key |-> <<result.routes[i].mode, 0>>, route |-> result.routes[i].route]],
                    preference)
    /\ UNCHANGED <<google_client, pc, providerCalls, directions, previous>>

PlanReturn ==
    /\ pc = "returned"
    /\ pc' = "idle"
    /\ req' = NoReq
    /\ providerCalls' = 0
    /\ directions' = None
    /\ result' = None
    /\ google_client' = FALSE
    /\ UNCHANGED previous

NextPlan ==
    \/ /\ pc = "idle"
       /\ \E k \in BOOLEAN, s \in GeocodeOutcomes, d \in GeocodeOutcomes,
             sel \in ModeSelections, p \in AppPriorities :
             CalculateRoutes(k, s, d, sel, p)
    \/ /\ pc = "returned"
       /\ \E p \in FilterPreferences : FilterSessionRoutes(p)
    \/ PlanReturn

SpecPlan == InitCalc /\ [][NextPlan]_vars

\* ------------------------------------------------------------------------
\* A caller of RouteProcessor._count_transfers
\* ------------------------------------------------------------------------

MaxSegments == 4

SegmentModes == {"walk", "metro", "bus", "driving"}

\* Routes without 'segments', and routes with up to MaxSegments segments of
\* one kilometre each.
TransferRoutes ==
    {[actual_mode |-> "metro"]}
    \cup UNION {{[actual_mode |-> "metro",
                  segments |-> [i \in 1..n |-> Seg(modes[i], Km(1000))]]
                 : modes \in [1..n -> SegmentModes]}
                : n \in 0..MaxSegments}

\* RouteProcessor._count_transfers(route)
CountTransfersCall(route) ==
    /\ pc = "idle"
    /\ req' = [op |-> "_count_transfers", route |-> route]
    /\ result' = [kind |-> "int", val |-> _count_transfers(route)]
    /\ pc' = "returned"
    /\ UNCHANGED <<google_client, providerCalls, directions, previous>>

NextTransfers ==
    \/ /\ pc = "idle"
       /\ \E r \in TransferRoutes : CountTransfersCall(r)
    \/ Return

SpecTransfers == InitCalc /\ [][NextTransfers]_vars

\* ------------------------------------------------------------------------
\* src/calculators/eco_scorer.py: EcoScorer.calculate_aggregate_impact and
\* its caller.  A trip is [mode, distance, duration], distance in hm.
\* ------------------------------------------------------------------------

MaxTrips == 3

\* mode_counts[mode.value] = mode_counts.get(mode.value, 0) + 1: the counts
\* as the sequence of the dictionary's items, in order of insertion.
CountInto(mode_counts, mode) ==
    IF \E i \in 1..Len(mode_counts) : mode_counts[i].mode = mode
    THEN [i \in 1..Len(mode_counts) |->
             IF mode_counts[i].mode = mode
             THEN [mode |-> mode, count |-> mode_counts[i].count + 1]
             ELSE mode_counts[i]]
    ELSE Append(mode_counts, [mode |-> mode, count |-> 1])

RECURSIVE ModeCounts(_)
ModeCounts(trips) ==
    IF trips = <<>> THEN <<>>
    ELSE CountInto(ModeCounts(SubSeq(trips, 1, Len(trips) - 1)), trips[Len(trips)].mode)

\* Variant: of the modes used most often, the one inserted last (compare
\* _get_most_common_mode).
RECURSIVE LastMostCommonMode(_)
LastMostCommonMode(mode_counts) ==
    IF mode_counts = <<>> THEN TransportMode["WALK"]
    ELSE IF Len(mode_counts) = 1 THEN mode_counts[1].mode
    ELSE LET rest == Tail(mode_counts)
         IN  IF \A i \in 1..Len(rest) : rest[i].count < mode_counts[1].count
             THEN mode_counts[1].mode ELSE LastMostCommonMode(rest)

\* max(mode_counts.items(), key=count): the first item with the largest
\* count; WALK for no item.
RECURSIVE _get_most_common_mode(_)
_get_most_common_mode(mode_counts) ==
    IF mode_counts = <<>> THEN TransportMode["WALK"]
    ELSE IF Len(mode_counts) = 1 THEN mode_counts[1].mode
    ELSE LET front == SubSeq(mode_counts, 1, Len(mode_counts) - 1)
             last  == mode_counts[Len(mode_counts)]
         IN  IF \A i \in 1..Len(front) : front[i].count < last.count
             THEN last.mode ELSE _get_most_common_mode(front)

\* The sums of the loop over the trips.
RECURSIVE TripTotals(_)
TripTotals(trips) ==
    IF trips = <<>> THEN [co2 |-> 0, cost |-> 0, distance |-> 0, duration |-> 0]
    ELSE LET trip     == trips[Len(trips)]
             before   == TripTotals(SubSeq(trips, 1, Len(trips) - 1))
             eco_data == calculate_eco_score(trip.mode, trip.distance, trip.duration)
         IN  [co2 |-> before.co2 + eco_data.co2_kg,
              cost |-> before.cost + eco_data.cost_inr,
              distance |-> before.distance + trip.distance,
              duration |-> before.duration + trip.duration]

\* a / b if b > 0 else 0, as the pair of numerator and denominator.
RatioOrZero(a, b) == IF b > 0 THEN [num |-> a, den |-> b] ELSE [num |-> 0, den |-> 1]

\* calculate_aggregate_impact(trips); TransportMode(trip["mode"]) raises
\* ValueError for a value the enumeration does not have.
calculate_aggregate_impact(trips) ==
    IF \E i \in 1..Len(trips) : trips[i].mode \notin TransportModeValues
    THEN Raised("ValueError")
    ELSE LET totals      == TripTotals(trips)
             mode_counts == ModeCounts(trips)
         IN  [kind |-> "dict",
              total_co2_kg |-> totals.co2,
              total_cost_inr |-> totals.cost,
              total_distance_km |-> totals.distance,
              total_duration_min |-> totals.duration,
              avg_co2_per_km |-> RatioOrZero(totals.co2, totals.distance),
              avg_cost_per_km |-> RatioOrZero(totals.cost, totals.distance),
              avg_speed_kmh |-> RatioOrZero(6 * totals.distance, totals.duration),
              overall_eco_score |->
                  calculate_eco_score(_get_most_common_mode(mode_counts),
                                      totals.distance, totals.duration).score,
              mode_distribution |-> mode_counts]

\* Trips of 0 or 5 km in 0 or 30 minutes, by every mode.
Trips == [mode : TransportModeValues, distance : {0, 50}, duration : {0, 30}]

TripLists == UNION {[1..n -> Trips] : n \in 0..MaxTrips}

\* EcoScorer.calculate_aggregate_impact(trips)
AggregateCall(trips) ==
    /\ pc = "idle"
    /\ req' = [op |-> "calculate_aggregate_impact", trips |-> trips]
    /\ result' = calculate_aggregate_impact(trips)
    /\ pc' = "returned"
    /\ UNCHANGED <<google_client, providerCalls, directions, previous>>

NextAggregate ==
    \/ /\ pc = "idle"
       /\ \E trips \in TripLists : AggregateCall(trips)
    \/ Return

SpecAggregate == InitCalc /\ [][NextAggregate]_vars

\* ------------------------------------------------------------------------
\* Properties
\* ------------------------------------------------------------------------

AppReturned == pc = "returned" /\ req.op = "app.calculate_route"

ApiReturned == pc = "returned" /\ req.op = "api.calculate_route"

HasWarningsList(r) == "warnings" \in DOMAIN r /\ r.warnings.kind = "list"

HasEstimatedNotice(r) ==
    /\ HasWarningsList(r)
    /\ \E i \in 1..Len(r.warnings.items) : r.warnings.items[i] = EstimatedNotice

\* r is the route of the geometric fallback.
IsEstimatedRoute(r) ==
    /\ r.kind = "route"
    /\ r.is_realistic = FALSE
    /\ HasEstimatedNotice(r)

\* The directions query of the request in progress was made and gave nothing
\* usable: no route, or a first route without a leg.
ProviderGaveNothing ==
    /\ providerCalls > 0
    /\ directions # None
    /\ \/ directions.items = <<>>
       \/ directions.items[1].legs = <<>>

\* The route of the request in progress was built from a provider response.
BuiltFromProvider ==
    /\ providerCalls > 0
    /\ directions # None
    /\ directions.items # <<>>
    /\ directions.items[1].legs # <<>>

\* C1: without a provider client, calculate_route of src/app.py returns, for
\* every coordinate pair and every mode of {car, metro, bus, walking,
\* bicycle}, a route (it neither raises nor returns None) with
\* is_realistic = false whose warnings contain the estimated-route notice,
\* and for identical coordinates that route has distance 0 and duration 0.
C1_NoClientReturnsEstimate ==
    (AppReturned /\ ~google_client /\ req.mode \in AppModes) =>
        /\ IsEstimatedRoute(result)
        /\ req.start_coords = req.end_coords =>
              result.total_distance_km = 0 /\ result.total_duration_min = 0

\* C2: with a provider client, calculate_route of src/app.py returns the
\* geometric fallback route (it neither raises nor returns None) whenever the
\* directions query raised, gave no route, or gave a response that fails in
\* normalization.
C2_ProviderFailureFallsBack ==
    (AppReturned /\ google_client /\ req.mode \in AppModes /\ ProviderGaveNothing) =>
        IsEstimatedRoute(result)

\* C3: calculate_route of src/api/route_service.py returns the pure-geometry
\* route (is_realistic = false), and not None, when the service has no
\* provider client and when the directions query gave nothing or raised.
C3_ApiFallsBack ==
    (/\ ApiReturned
     /\ req.mode \in TransportModeValues
     /\ req.api_key = "None" \/ ProviderGaveNothing) =>
        result.kind = "route" /\ result.is_realistic = FALSE

\* C4: within one calculate_route call the directions query is issued at
\* most once; after an attempt that failed or gave nothing the call is over,
\* the provider is not queried again.
C4_AtMostOneQuery ==
    /\ providerCalls <= 1
    /\ pc = "query" => providerCalls = 0

C4_Witness ==
    /\ AppReturned
    /\ providerCalls = 1
    /\ directions = List(<<>>)
    /\ IsEstimatedRoute(result)

C6_UnknownModeRejected ==
    (AppReturned /\ req.mode \notin AppModes) => result.kind # "route"

\* C7: calculate_eco_score returns a score between 0 and 100 points,
\* calculate_co2_emissions a co2_kg >= 0 and calculate_cost a
\* total_cost >= 0, for every mode, distance and duration.
C7_Bounds ==
    pc = "returned" =>
        /\ req.op = "calculate_eco_score" =>
              result.score >= 0 /\ result.score <= Points(100)
        /\ req.op = "calculate_co2_emissions" => result.co2_kg >= 0
        /\ req.op = "calculate_cost" => result.total_cost >= 0

\* A long bicycle ride, whose weighted sum exceeds 100 points before the clamp.
C7_Witness ==
    /\ pc = "returned"
    /\ req.op = "calculate_eco_score"
    /\ req.mode = "bike"
    /\ req.distance_hm = MaxDistanceHm
    /\ result.score = Points(100)

C9_MonotoneInDistance ==
    (/\ pc = "returned"
     /\ previous.op = req.op
     /\ previous.req.mode = req.mode
     /\ previous.req.distance_hm <= req.distance_hm
     /\ req.op = "calculate_cost" => previous.req.duration_min = req.duration_min) =>
        /\ req.op = "calculate_cost" => previous.result.total_cost <= result.total_cost
        /\ req.op = "calculate_co2_emissions" => previous.result.co2_kg <= result.co2_kg

\* Two car trips of equal duration on either side of the toll threshold.
C9_Witness ==
    /\ pc = "returned"
    /\ req.op = "calculate_cost"
    /\ previous.op = "calculate_cost"
    /\ req.mode = "car"
    /\ previous.req.mode = "car"
    /\ previous.req.duration_min = req.duration_min
    /\ previous.req.distance_hm = 200
    /\ req.distance_hm = 201
    /\ previous.result.toll_cost = 0
    /\ result.toll_cost = INR(50)

\* C10: the metro fare is min(10 + 2.5 * distance_km, 60) INR: 35 INR at
\* 10 km, 60 INR at 25 km, and never above 60 INR.
C10_MetroFare ==
    (pc = "returned" /\ req.op = "calculate_cost" /\ req.mode = "metro") =>
        /\ 100 * result.total_cost = Min(100 * INR(10) + INR(25) * req.distance_hm, 100 * INR(60))
        /\ result.total_cost <= INR(60)
        /\ req.distance_hm = 100 => result.total_cost = INR(35)
        /\ req.distance_hm = 250 => result.total_cost = INR(60)

C10_Witness ==
    /\ pc = "returned"
    /\ req.op = "calculate_cost"
    /\ req.mode = "metro"
    /\ req.distance_hm = 250
    /\ result.total_cost = INR(60)

CostReturned == pc = "returned" /\ req.op = "calculate_cost"

\* C11: the bus fare is the band fare plus the AC surcharge of 10 INR; the
\* band fare is 5 INR up to 2 km, 10 up to 4, 15 up to 6, 25 up to 10, 30 up
\* to 15 (each bound included) and 35 beyond; at 3 km the total is 20 INR.
C11_BusFare ==
    (CostReturned /\ req.mode = "bus") =>
        /\ req.distance_hm <= 20 => result.total_cost = INR(15)
        /\ (req.distance_hm > 20 /\ req.distance_hm <= 40) => result.total_cost = INR(20)
        /\ (req.distance_hm > 40 /\ req.distance_hm <= 60) => result.total_cost = INR(25)
        /\ (req.distance_hm > 60 /\ req.distance_hm <= 100) => result.total_cost = INR(35)
        /\ (req.distance_hm > 100 /\ req.distance_hm <= 150) => result.total_cost = INR(40)
        /\ req.distance_hm > 150 => result.total_cost = INR(45)
        /\ req.distance_hm = 30 => result.total_cost = INR(20)
        /\ result.total_cost = result.base_fare + INR(10)

\* A bus trip of exactly 4 km, on the upper bound of its band.
C11_Witness ==
    /\ CostReturned
    /\ req.mode = "bus"
    /\ req.distance_hm = 40
    /\ result.base_fare = INR(10)
    /\ result.total_cost = INR(20)

\* C12: calculate_cost with a distance of 0 returns cost_per_km = 0, for
\* every mode.
C12_ZeroDistanceCostPerKm ==
    (CostReturned /\ req.distance_hm = 0) => result.cost_per_km = 0

\* C13: for a car the parking cost is the hourly rate (30 INR at peak or
\* with no time of day, 20 INR otherwise) times max(1, ceil(duration / 60)),
\* the toll is 50 INR exactly when the distance is above 20 km, and at
\* distance 0 the total is the parking cost alone with cost_per_km 0.
C13_CarParkingAndToll ==
    (CostReturned /\ req.mode = "car") =>
        LET rate  == IF req.time_of_day \in {"peak", "None"} THEN 30 ELSE 20
            hours == result.parking_cost \div INR(rate)
        IN  /\ result.parking_cost = hours * INR(rate)
            /\ hours >= 1
            /\ 60 * hours >= req.duration_min
            /\ hours > 1 => 60 * (hours - 1) < req.duration_min
            /\ result.toll_cost = (IF req.distance_hm > 200 THEN INR(50) ELSE 0)
            /\ req.distance_hm = 0 =>
                  /\ result.total_cost = result.parking_cost
                  /\ result.total_cost >= INR(rate)
                  /\ result.toll_cost = 0
                  /\ result.cost_per_km = 0

\* A car that does not move and is parked off-peak for 61 minutes: two hours.
C13_Witness ==
    /\ CostReturned
    /\ req.mode = "car"
    /\ req.distance_hm = 0
    /\ req.duration_min = 61
    /\ req.time_of_day = "off_peak"
    /\ result.parking_cost = INR(40)
    /\ result.total_cost = INR(40)


FilterReturned == pc = "returned" /\ req.op = "get_practical_routes"

\* The items of the returned mapping, in its order of iteration.
ReturnedItems == IF result.kind = "list" THEN result.items ELSE <<>>

IsReturned(item) == \E i \in 1..Len(ReturnedItems) : ReturnedItems[i] = item

IsGiven(item) == \E i \in 1..Len(req.routes_dict) : req.routes_dict[i] = item

\* C14: under 'fastest', 'greenest' and 'balanced' get_practical_routes
\* returns a bus route only if its duration is under 30 minutes, so the
\* 45-minute bus route, whose walk and transfers are within the caps, is left
\* out under 'fastest'; under 'cheapest' the bus routes given, all within the
\* caps, are returned whatever their duration.
C14_BusOnlyShortHops ==
    FilterReturned =>
        /\ req.preference \in {"fastest", "greenest", "balanced"} =>
              /\ result.kind = "list"
              /\ \A i \in 1..Len(ReturnedItems) :
                    ReturnedItems[i].route.actual_mode = "bus"
                        => ReturnedItems[i].route.duration_min < 30
        /\ req.preference = "fastest" =>
              ~IsReturned([key |-> <<"bus", 45>>, route |-> BusRoute(45)])
        /\ req.preference = "cheapest" =>
              \A d \in BusDurations :
                  IsGiven([key |-> <<"bus", d>>, route |-> BusRoute(d)])
                      => IsReturned([key |-> <<"bus", d>>, route |-> BusRoute(d)])

\* A 45-minute and a 29-minute bus route were given under 'fastest' and only
\* the second came back.
C14_Witness ==
    /\ FilterReturned
    /\ req.preference = "fastest"
    /\ IsGiven([key |-> <<"bus", 45>>, route |-> BusRoute(45)])
    /\ IsGiven([key |-> <<"bus", 30>>, route |-> BusRoute(30)])
    /\ IsGiven([key |-> <<"bus", 29>>, route |-> BusRoute(29)])
    /\ result = List(<< [key |-> <<"bus", 29>>, route |-> BusRoute(29)] >>)

\* The distance walked on a route: the sum of its walking segments'
\* distances, in metres, whichever unit the text is written in.
RECURSIVE WalkingMetres(_)
WalkingMetres(segments) ==
    IF segments = <<>> THEN 0
    ELSE (IF segments[1].mode = "walk" THEN segments[1].distance.value ELSE 0)
         + WalkingMetres(Tail(segments))

WalkedOn(route) ==
    IF "segments" \in DOMAIN route THEN WalkingMetres(route.segments) ELSE 0

\* The caps of the four preferences: walking in metres, transfers.
MaxWalkOf(preference) ==
    CASE preference = "fastest" -> 1000
      [] preference = "cheapest" -> 1500
      [] preference = "greenest" -> 2000
      [] preference = "balanced" -> 1200

MaxTransfersOf(preference) == IF preference = "cheapest" THEN 3 ELSE 2

WithinCaps(route, preference) ==
    /\ WalkedOn(route) <= MaxWalkOf(preference)
    /\ route.actual_mode \in {"metro", "bus"}
          => _count_transfers(route) <= MaxTransfersOf(preference)

\* C15: get_practical_routes returns no route whose walking segments add up
\* to more than the preference's cap (1.0, 1.5, 2.0, 1.2 km) and no metro or
\* bus route with more transfers than the cap (2, 3, 2, 2); a route given
\* that is within both caps and passes the bus rule is returned.
C15_CapsDecide ==
    (FilterReturned /\ req.preference \in DOMAIN Criteria) =>
        /\ result.kind = "list"
        /\ \A i \in 1..Len(ReturnedItems) :
              WithinCaps(ReturnedItems[i].route, req.preference)
        /\ \A i \in 1..Len(req.routes_dict) :
              LET route == req.routes_dict[i].route
              IN  (/\ DOMAIN route # {}
                   /\ route # None
                   /\ WithinCaps(route, req.preference)
                   /\ (req.preference # "cheapest" /\ route.actual_mode = "bus")
                          => route.duration_min < 30)
                      => IsReturned(req.routes_dict[i])

\* The value get_practical_routes orders by, made ascending: the balance
\* score is negated, since a higher score is to come first.
Objective(route, preference) ==
    CASE preference = "fastest" -> route.duration_min
      [] preference = "cheapest" -> _estimate_cost(route)
      [] preference = "greenest" -> _estimate_emissions(route)
      [] preference = "balanced" -> 0 - _calculate_balance_score(route)

\* C16: the routes get_practical_routes returns are in the order of the
\* preference's objective: duration ascending under 'fastest', estimated cost
\* ascending under 'cheapest', estimated emissions ascending under
\* 'greenest', balance score descending under 'balanced'.
C16_OrderedByObjective ==
    (FilterReturned /\ req.preference \in DOMAIN Criteria) =>
        /\ result.kind = "list"
        /\ \A i, j \in 1..Len(ReturnedItems) :
              i < j => Objective(ReturnedItems[i].route, req.preference)
                          <= Objective(ReturnedItems[j].route, req.preference)

CompareReturned == pc = "returned" /\ req.op = "api.compare_routes"

\* C17: compare_routes of the api RouteService, given a non-empty mapping,
\* answers best_eco = the first mode with the largest eco_score, fastest =
\* the first mode with the smallest total_duration_min, cheapest = the first
\* mode with the smallest cost_inr, and a comparison table of exactly the
\* modes given.
C17_BestOfEach ==
    (CompareReturned /\ req.routes # <<>>) =>
        LET routes == req.routes
            n == Len(routes)
            IsFirstBest(mode, field, better(_, _)) ==
                \E i \in 1..n :
                    /\ routes[i].mode = mode
                    /\ \A j \in 1..n : ~better(routes[j].route[field], routes[i].route[field])
                    /\ \A j \in 1..(i - 1) : routes[j].route[field] # routes[i].route[field]
            More(a, b) == a > b
            Less(a, b) == a < b
        IN  /\ result.kind = "dict"
            /\ IsFirstBest(result.best_eco.mode, "eco_score", More)
            /\ IsFirstBest(result.fastest.mode, "total_duration_min", Less)
            /\ IsFirstBest(result.cheapest.mode, "cost_inr", Less)
            /\ {result.comparison[i].mode : i \in DOMAIN result.comparison}
                  = {routes[i].mode : i \in 1..n}
            /\ Len(result.comparison) = n

\* C18: a route calculate_route of src/app.py returns with a polyline has a
\* decoded_path that is not empty, and when the codec fails on the polyline
\* the decoded_path is the straight line <<start_location, end_location>>.
C18_DecodedPathNeverEmpty ==
    (/\ AppReturned
     /\ result.kind = "route"
     /\ result.polyline.kind = "str"
     /\ result.polyline.val # "") =>
        /\ result.decoded_path # <<>>
        /\ ~PolylineDecode(result.polyline.val).ok
              => result.decoded_path = <<result.start_location, result.end_location>>

RoutesCalculated == pc = "returned" /\ req.op = "calculate_routes"

\* The warnings the provider's responses carry.
ProviderWarnings ==
    UNION {{r.warnings.items[i] : i \in 1..Len(r.warnings.items)} :
              r \in {x \in Responses : x.warnings # None}}

\* The route's warnings list holds a warning that is neither the provider's
\* nor the notice of the estimated route.
HasSubstitutionWarning(r) ==
    /\ HasWarningsList(r)
    /\ \E i \in 1..Len(r.warnings.items) :
          r.warnings.items[i] \notin ProviderWarnings \cup {EstimatedNotice}

\* C19: when calculate_routes cannot geocode the source or the destination,
\* the default coordinate takes its place and every route of the session has
\* a warning about the substitution in its warnings list.
C19_SubstitutionWarned ==
    (/\ RoutesCalculated
     /\ req.has_api_key
     /\ AppGeocode(req.source) = None \/ AppGeocode(req.destination) = None
     /\ result.kind = "routes") =>
        /\ AppGeocode(req.source) = None => result.start_coords = MapCenter
        /\ AppGeocode(req.destination) = None => result.end_coords = MapCenterOffset
        /\ \A i \in 1..Len(result.routes) : HasSubstitutionWarning(result.routes[i].route)

SessionFiltered == pc = "returned" /\ req.op = "filter_session_routes"

\* The metres walked on a route of calculate_route: the sum over its
\* walking steps.
RECURSIVE StepsWalked(_)
StepsWalked(steps) ==
    IF steps = <<>> THEN 0
    ELSE (IF steps[1].mode = "walking" THEN steps[1].distance_m ELSE 0)
         + StepsWalked(Tail(steps))

\* The transfers of a route of calculate_route: one less than its transit
\* steps, at least 0.
StepTransfers(route) ==
    IF route.transit_segments = None THEN 0
    ELSE Max(0, Len(route.transit_segments.items) - 1)

\* C20: get_practical_routes, given the routes calculate_route of src/app.py
\* returned, ends without an error under every preference, and the routes it
\* returns obey the preference's rules on what calculate_route recorded: the
\* walking steps within the walking cap, the transit steps of a metro or bus
\* route within the transfer cap, a bus route under 30 minutes unless the
\* preference is 'cheapest'.
C20_ServiceRoutesFiltered ==
    SessionFiltered =>
        /\ result.kind = "list"
        /\ req.preference \in DOMAIN Criteria =>
              \A i \in 1..Len(ReturnedItems) :
                  LET route == ReturnedItems[i].route
                  IN  /\ StepsWalked(route.steps) <= MaxWalkOf(req.preference)
                      /\ route.mode \in {"metro", "bus"}
                            => StepTransfers(route) <= MaxTransfersOf(req.preference)
                      /\ (req.preference # "cheapest" /\ route.mode = "bus")
                            => route.total_duration_min < 300

\* C21: the RouteService of src/api/route_service.py is constructed without
\* an API key and its calculate_route then returns a route dictionary, never
\* None and never an exception, for each of the mode strings car, metro,
\* bus, walking and bicycle.
C21_KeylessServiceAnswers ==
    (ApiReturned /\ req.api_key = "None" /\ req.mode \in AppModes) =>
        /\ ApiRouteServiceInit(req.api_key).kind = "service"
        /\ result # None
        /\ result.kind = "route"

EcoScoreReturned == pc = "returned" /\ req.op = "calculate_eco_score"

\* C22: the score calculate_eco_score returns is, clamped to [0, 100],
\* co2_score * 0.40 + cost_score * 0.25 + time_score * 0.20
\* + mode_score * 0.15, plus health_score * 0.10 for bike and walk only,
\* minus congestion_score * 0.05; so the health score of car, metro and bus
\* does not enter, and the congestion score -20 of bike and walk adds one
\* point.  Both sides are taken times 100.
C22_WeightedComposite ==
    EcoScoreReturned =>
        LET c == result.components
            active == req.mode \in {"bike", "walk"}
            weighted100 == 40 * c.co2_score + 25 * c.cost_score + 20 * c.time_score
                           + 15 * c.mode_score
                           + (IF active THEN 10 * c.health_score ELSE 0)
                           - 5 * c.congestion_score
        IN  /\ 100 * result.score = Max(0, Min(100 * Points(100), weighted100))
            /\ active => c.congestion_score = 0 - Points(20)

\* A walk of 1 km in 15 minutes: below 100 points, with a health score and
\* the congestion bonus in the score.
C22_Witness ==
    /\ EcoScoreReturned
    /\ req.mode = "walk"
    /\ req.distance_hm = 10
    /\ req.duration_min = 15
    /\ result.components.health_score = Points(20)
    /\ result.components.congestion_score = 0 - Points(20)
    /\ result.score < Points(100)
    /\ result.score > 0

\* C23: the category returned with an eco-score depends on the score alone:
\* Excellent iff score >= 80, Good iff 60 <= score < 80, Moderate iff
\* 40 <= score < 60, Poor iff 20 <= score < 40, Very Poor iff score < 20;
\* the color is the one configured for the category.
C23_CategoryOfScore ==
    EcoScoreReturned =>
        /\ result.category = "Excellent" <=> result.score >= Points(80)
        /\ result.category = "Good" <=> (Points(60) <= result.score /\ result.score < Points(80))
        /\ result.category = "Moderate" <=> (Points(40) <= result.score /\ result.score < Points(60))
        /\ result.category = "Poor" <=> (Points(20) <= result.score /\ result.score < Points(40))
        /\ result.category = "VeryPoor" <=> result.score < Points(20)
        /\ result.color = CASE result.category = "Excellent" -> "#2E7D32"
                            [] result.category = "Good" -> "#43A047"
                            [] result.category = "Moderate" -> "#FB8C00"
                            [] result.category = "Poor" -> "#E53935"
                            [] result.category = "VeryPoor" -> "#B71C1C"

\* A bus ride of 1.5 km in 100 minutes scores exactly 80 points: Excellent.
C23_Witness ==
    /\ EcoScoreReturned
    /\ req.mode = "bus"
    /\ req.distance_hm = 15
    /\ req.duration_min = 100
    /\ result.score = Points(80)
    /\ result.category = "Excellent"
    /\ result.color = "#2E7D32"

\* The congestion penalty of a car ride of duration_min minutes: half a
\* point per minute, at most 100 points.
CarPenalty(duration_min) == Min(Points(100), 500 * duration_min)

\* C24: the congestion component is, for car, proportional to the duration
\* and at most 100; for bus, half of the car's penalty for the same duration
\* and at most 50; for metro 0; for bike and walk -20.
C24_CongestionByMode ==
    EcoScoreReturned =>
        LET congestion_score == result.components.congestion_score
        IN  /\ req.mode = "car" => congestion_score = CarPenalty(req.duration_min)
            /\ req.mode = "bus" =>
                  2 * congestion_score = Min(2 * Points(50), CarPenalty(req.duration_min))
            /\ req.mode = "metro" => congestion_score = 0
            /\ req.mode \in {"bike", "walk"} => congestion_score = 0 - Points(20)

TransfersCounted == pc = "returned" /\ req.op = "_count_transfers"

\* The segments that follow a segment of another mode and are a metro or a
\* bus ride.
ChangesIntoTransit(segments) ==
    {i \in 2..Len(segments) :
        segments[i].mode \in {"metro", "bus"} /\ segments[i].mode # segments[i - 1].mode}

\* C25: _count_transfers returns the number of mode changes into a transit
\* segment minus 1 (the first boarding is no transfer), at least 0, and 0
\* for a route without segments.
C25_TransfersCounted ==
    TransfersCounted =>
        IF "segments" \in DOMAIN req.route
        THEN result.val = Max(0, Cardinality(ChangesIntoTransit(req.route.segments)) - 1)
        ELSE result.val = 0

\* walk, metro, walk, bus: two changes into transit, one transfer.
C25_Witness ==
    /\ TransfersCounted
    /\ "segments" \in DOMAIN req.route
    /\ Len(req.route.segments) = 4
    /\ req.route.segments[1].mode = "walk"
    /\ req.route.segments[2].mode = "metro"
    /\ req.route.segments[3].mode = "walk"
    /\ req.route.segments[4].mode = "bus"
    /\ result.val = 1

\* C30: the transfer count does not depend on a leading walking segment:
\* _count_transfers of a route that begins with a walk equals its count for
\* the same segments without that walk (walk, metro, walk, bus and metro,
\* walk, bus both count 1 transfer).
C30_LeadingWalkIrrelevant ==
    (/\ TransfersCounted
     /\ "segments" \in DOMAIN req.route
     /\ Len(req.route.segments) >= 2
     /\ req.route.segments[1].mode = "walk") =>
        /\ result.val = _count_transfers([req.route EXCEPT !.segments = Tail(req.route.segments)])
        /\ (Len(req.route.segments) = 4
            /\ req.route.segments[2].mode = "metro"
            /\ req.route.segments[3].mode = "walk"
            /\ req.route.segments[4].mode = "bus")
              => _count_transfers([req.route EXCEPT !.segments = Tail(req.route.segments)]) = 1

\* The steps of the provider's leg the route in hand was built from.
ProviderSteps == directions.items[1].legs[1].steps

\* The indices of the provider's steps that carry transit details.
TransitStepIndices == {i \in 1..Len(ProviderSteps) : ProviderSteps[i].transit_details # None}

\* C26: in the route _process_google_route builds, a step with the
\* provider's transit_details is recorded under the display mode of its
\* vehicle type (subway -> metro, bus -> bus, train or rail -> train, any
\* other -> transit), every other step under its provider travel mode in
\* lower case; the steps are numbered 1..n in the provider's order, and
\* transit_segments holds the transit steps' details in order, or None when
\* there are none.
C26_StepModes ==
    (AppReturned /\ BuiltFromProvider /\ result.kind = "route" /\ result.is_realistic) =>
        LET n == Len(ProviderSteps)
            LowerCase(s) == CASE s = "DRIVING" -> "driving" [] s = "WALKING" -> "walking"
                              [] s = "TRANSIT" -> "transit" [] s = "BICYCLING" -> "bicycling"
            Display(v) == CASE v = "SUBWAY" -> "metro" [] v = "BUS" -> "bus"
                            [] v \in {"TRAIN", "RAIL"} -> "train" [] OTHER -> "transit"
        IN  /\ Len(result.steps) = n
            /\ \A i \in 1..n :
                  /\ result.steps[i].step = i
                  /\ result.steps[i].distance_m = ProviderSteps[i].distance
                  /\ result.steps[i].mode =
                        IF i \in TransitStepIndices
                        THEN Display(ProviderSteps[i].transit_details.vehicle_type)
                        ELSE LowerCase(ProviderSteps[i].travel_mode)
            /\ IF TransitStepIndices = {}
               THEN result.transit_segments = None
               ELSE /\ result.transit_segments.kind = "list"
                    /\ Len(result.transit_segments.items) = Cardinality(TransitStepIndices)
                    /\ \A i \in TransitStepIndices :
                          result.transit_segments.items[Cardinality({j \in TransitStepIndices : j <= i})]
                              = result.steps[i].transit

\* The rail route: train, walk, tram, and a transit step without a vehicle.
C26_Witness ==
    /\ AppReturned
    /\ BuiltFromProvider
    /\ result.kind = "route"
    /\ Len(result.steps) = 4
    /\ result.steps[1].mode = "train"
    /\ result.steps[2].mode = "walking"
    /\ result.steps[3].mode = "transit"
    /\ result.steps[4].mode = "transit"
    /\ result.steps[4].transit = None
    /\ Len(result.transit_segments.items) = 2

\* C28: a route calculate_route of src/app.py built from a provider response
\* has total_distance_km and total_duration_min equal to the distance and
\* duration the provider reports for the leg, converted from metres to km
\* (two decimals) and from seconds to minutes (one decimal).
C28_LegTotals ==
    (AppReturned /\ BuiltFromProvider /\ result.kind = "route" /\ result.is_realistic) =>
        /\ result.total_distance_km = RoundDiv(directions.items[1].legs[1].distance, 10)
        /\ result.total_duration_min = RoundDiv(directions.items[1].legs[1].duration, 6)

AggregateReturned == pc = "returned" /\ req.op = "calculate_aggregate_impact"

\* C27: calculate_aggregate_impact returns the sums of the trips' co2, cost,
\* distance and duration, a mode_distribution that counts every trip once
\* under its mode, and as overall_eco_score the score of calculate_eco_score
\* for the most frequent mode over the total distance and duration; of
\* several most frequent modes the one that appears first in the list is
\* taken, and an empty list is scored as a walk of distance 0 and duration 0.
C27_AggregateOfTrips ==
    AggregateReturned =>
        LET trips == req.trips
            n == Len(trips)
            each == [i \in 1..n |->
                        [co2 |-> calculate_eco_score(trips[i].mode, trips[i].distance,
                                                     trips[i].duration).co2_kg,
                         cost |-> calculate_eco_score(trips[i].mode, trips[i].distance,
                                                      trips[i].duration).cost_inr,
                         distance |-> trips[i].distance,
                         duration |-> trips[i].duration]]
            Uses(m) == {i \in 1..n : trips[i].mode = m}
            used == {trips[i].mode : i \in 1..n}
            IsFirstMostFrequent(m) ==
                /\ \A o \in used : Cardinality(Uses(o)) <= Cardinality(Uses(m))
                /\ \A o \in used \ {m} :
                      Cardinality(Uses(o)) = Cardinality(Uses(m))
                          => \E i \in Uses(m) : \A j \in Uses(o) : i < j
            dist == result.mode_distribution
        IN  /\ result.kind = "dict"
            /\ result.total_co2_kg = SumOver(each, "co2")
            /\ result.total_cost_inr = SumOver(each, "cost")
            /\ result.total_distance_km = SumOver(each, "distance")
            /\ result.total_duration_min = SumOver(each, "duration")
            /\ {dist[i].mode : i \in 1..Len(dist)} = used
            /\ Len(dist) = Cardinality(used)
            /\ \A i \in 1..Len(dist) : dist[i].count = Cardinality(Uses(dist[i].mode))
            /\ \E m \in (IF n = 0 THEN {"walk"} ELSE {o \in used : IsFirstMostFrequent(o)}) :
                  result.overall_eco_score =
                      calculate_eco_score(m, result.total_distance_km,
                                          result.total_duration_min).score

\* A car trip, then a metro trip: both modes are used once, the car comes
\* first, and the two modes score differently.
C27_Witness ==
    /\ AggregateReturned
    /\ Len(req.trips) = 2
    /\ req.trips[1] = [mode |-> "car", distance |-> 50, duration |-> 30]
    /\ req.trips[2] = [mode |-> "metro", distance |-> 50, duration |-> 30]
    /\ result.total_distance_km = 100
    /\ result.mode_distribution = << [mode |-> "car", count |-> 1], [mode |-> "metro", count |-> 1] >>
    /\ result.overall_eco_score =
          calculate_eco_score("car", result.total_distance_km, result.total_duration_min).score
    /\ result.overall_eco_score #
          calculate_eco_score("metro", result.total_distance_km, result.total_duration_min).score

\* The place of a returned item in the routes_dict that was given.
PlaceGiven(item) == CHOOSE i \in 1..Len(req.routes_dict) : req.routes_dict[i] = item

\* The key get_practical_routes sorts a route by under the preference asked.
SortedBy(route) == SortKey(route, req.preference)

\* C29: get_practical_routes only selects and reorders: every (mode, route)
\* it returns is an item of the routes_dict given, with the same route; no
\* mode is returned twice; an item whose route is None or empty is not
\* returned; returned routes of equal sort key are in the order they were
\* given in; and a preference other than fastest, cheapest, greenest and
\* balanced gives what 'balanced' gives for the same routes_dict.
C29_SelectsAndReorders ==
    FilterReturned =>
        /\ result.kind = "list"
        /\ \A i \in 1..Len(ReturnedItems) :
              /\ IsGiven(ReturnedItems[i])
              /\ DOMAIN ReturnedItems[i].route # {}
              /\ ReturnedItems[i].route # None
        /\ \A i, j \in 1..Len(ReturnedItems) :
              i < j =>
                 /\ ReturnedItems[i].key # ReturnedItems[j].key
                 /\ SortedBy(ReturnedItems[i].route) = SortedBy(ReturnedItems[j].route)
                       => PlaceGiven(ReturnedItems[i]) < PlaceGiven(ReturnedItems[j])
        /\ req.preference \notin DOMAIN Criteria =>
              result = get_practical_routes(req.routes_dict, "balanced")

\* Witness: under 'cheapest' two metro routes of equal estimated cost are
\* returned in the order given, and a key without a route, given between
\* them, is left out.
C29_Witness ==
    /\ FilterReturned
    /\ req.preference = "cheapest"
    /\ Len(req.routes_dict) = 3
    /\ req.routes_dict[2].route = None
    /\ Len(ReturnedItems) = 2
    /\ ReturnedItems[1] = req.routes_dict[1]
    /\ ReturnedItems[2] = req.routes_dict[3]
    /\ ReturnedItems[1].route.duration_min > ReturnedItems[2].route.duration_min
    /\ _estimate_cost(ReturnedItems[1].route) = _estimate_cost(ReturnedItems[2].route)

\* Witness: a preference that is not configured is answered, with an empty
\* route given, by the routes 'balanced' keeps.
C29_UnknownPreference ==
    /\ FilterReturned
    /\ req.preference = "scenic"
    /\ \E i \in 1..Len(req.routes_dict) : DOMAIN req.routes_dict[i].route = {}
    /\ Len(ReturnedItems) = 2

====
